---- MODULE Spec2Model ----
(***************************************************************************)
(* falcon_dbapi: the filter / order expression compiler of the relational  *)
(* backend (resources/sqlalchemy.py, AlchemyMixin) and of the document     *)
(* backend (resources/elasticsearch.py, ElasticSearchMixin).               *)
(*                                                                         *)
(* A compilation is a synchronous call; the state records the last call,   *)
(* the join/alias registry it built and the query it returned.             *)
(***************************************************************************)
EXTENDS Integers, Sequences, FiniteSets, TLC

VARIABLES pc, call, relationships, query, error, session, store

vars == <<pc, call, relationships, query, error, session, store>>

\* no session_scope is entered; no get_or_create is under way
NoSession == [pc |-> "outside", open |-> FALSE, log |-> <<>>, exc |-> ""]
NoStore == [isolation |-> "", committed |-> {}, calls |-> <<>>]

(***************************************************************************)
(* Bounds of the model.                                                    *)
(***************************************************************************)
MaxConds == 2
MaxList == 2

(***************************************************************************)
(* Decoded JSON / form values.  StrV(n) is the decimal string of n, the    *)
(* form in which query-string parameters arrive.                           *)
(***************************************************************************)
IntV(n) == [k |-> "int", n |-> n]
StrV(n) == [k |-> "str", n |-> n]
BoolV(b) == [k |-> "bool", b |-> b]
NoneV == [k |-> "none"]
ListV(items) == [k |-> "list", items |-> items]
DictV(pairs) == [k |-> "dict", pairs |-> pairs]
Item(key, val) == [key |-> key, val |-> val]

\* Python truth value of a decoded value
Truthy(v) ==
    CASE v.k = "int" -> v.n # 0
      [] v.k = "str" -> TRUE
      [] v.k = "bool" -> v.b
      [] v.k = "none" -> FALSE
      [] v.k = "list" -> v.items # <<>>
      [] v.k = "dict" -> v.pairs # <<>>
      [] OTHER -> TRUE

(***************************************************************************)
(* Errors.  kind = "" means that nothing was raised.                       *)
(***************************************************************************)
NoError == [kind |-> "", at |-> <<>>]
Raise(kind, at) == [kind |-> kind, at |-> at]
HTTPBadRequest(at) == Raise("InvalidAttribute", at)

(***************************************************************************)
(* The relational schema of the test suite: Model, OtherModel, ThirdModel. *)
(***************************************************************************)
Columns(cls) ==
    CASE cls = "Model" -> {"id", "name"}
      [] cls = "OtherModel" -> {"id", "name"}
      [] cls = "ThirdModel" -> {"id", "other_model_id", "name"}
      [] cls = "WideModel" -> {"id", "other_models__name", "first__name"}
      [] OTHER -> {}

ColumnType(cls, col) ==
    IF col \in {"id", "other_model_id"} THEN "Integer" ELSE "String"

Relations(cls) ==
    CASE cls = "Model" -> {"other_models"}
      [] cls = "OtherModel" -> {"third_models", "models"}
      [] cls = "ThirdModel" -> {"other_model"}
      [] cls = "WideModel" -> {"other_models"}
      [] OTHER -> {}

RelationTarget(rel) ==
    CASE rel = "other_models" -> "OtherModel"
      [] rel = "third_models" -> "ThirdModel"
      [] rel = "models" -> "Model"
      [] rel = "other_model" -> "OtherModel"
      [] OTHER -> "Model"

\* only Model defines get_term_query
HasTermQuery(cls) == cls = "Model"

objects_class == "Model"
PARAM_TEXT_QUERY == "q"
IGNORE_UNKNOWN_FILTER == FALSE

(***************************************************************************)
(* AlchemyMixin._underscore_operators, the operators modelled.  The func   *)
(* family and the date extractions are not part of the inputs.             *)
(***************************************************************************)
underscore_operators ==
    {"exact", "notexact", "gt", "lt", "gte", "lte", "range", "notrange",
     "in", "notin", "contains", "notcontains", "match", "notmatch",
     "startswith", "notstartswith", "endswith", "notendswith",
     "hasall", "hasany", "haskey", "overlap", "isnull", "isnotnull",
     "icontains", "noticontains", "iexact", "notiexact",
     "istartswith", "notistartswith", "iendswith", "notiendswith"}

logical_operators == {"or", "and", "not"}

\* the operator each logical keyword maps to: or_, and_, not_
LogicalOp(arg) == arg

(***************************************************************************)
(* Aliases and columns.  The root entity is addressed through the class    *)
(* itself (num = 0); aliased(cls, name = rel_<num>) is a fresh object,     *)
(* identified by the relationship name and its number.                     *)
(***************************************************************************)
ClassAlias(cls) == [cls |-> cls, prefix |-> "", rel |-> "", num |-> 0]
aliased(cls, prefix, rel, num) == [cls |-> cls, prefix |-> prefix, rel |-> rel, num |-> num]
NoColumn == [alias |-> ClassAlias(""), name |-> "", type |-> ""]
ColumnOf(alias, cls, name) == [alias |-> alias, name |-> name, type |-> ColumnType(cls, name)]

(***************************************************************************)
(* Relational expressions.                                                 *)
(***************************************************************************)
None == [e |-> "none"]
BinaryExpression(op, col, val) == [e |-> "op", op |-> op, col |-> col, val |-> val]
ColumnExpr(col) == [e |-> "column", col |-> col]
and_(exprs) == [e |-> "and", args |-> exprs]
or_(exprs) == [e |-> "or", args |-> exprs]
not_(expr) == [e |-> "not", args |-> <<expr>>]
desc(expr) == [e |-> "desc", args |-> <<expr>>]
TermQuery(alias, col, val, op) == [e |-> "term_query", alias |-> alias, col |-> col, val |-> val, op |-> op]

\* default_op(*expressions) for the operators and_ / or_
Join(op, exprs) == IF op = "or" THEN or_(exprs) ELSE and_(exprs)

(***************************************************************************)
(* AlchemyMixin.deserialize_column: the value converted to the column's    *)
(* type.  int() of a list or mapping raises TypeError.                     *)
(***************************************************************************)
Val(v) == [val |-> v, err |-> NoError]
ValErr(kind) == [val |-> NoneV, err |-> Raise(kind, <<>>)]

deserialize_column(type, v) ==
    IF v.k = "none" THEN Val(NoneV)
    ELSE IF type = "Integer"
         THEN CASE v.k = "int" -> Val(v)
                [] v.k = "str" -> Val(IntV(v.n))
                [] v.k = "bool" -> Val(IntV(IF v.b THEN 1 ELSE 0))
                [] OTHER -> ValErr("TypeError")
         ELSE Val(v)

Vals(items) == [items |-> items, err |-> NoError]
ValsCons(d, rest) ==
    IF d.err.kind # "" THEN [items |-> <<>>, err |-> d.err]
    ELSE [rest EXCEPT !.items = <<d.val>> \o @]

\* list(map(lambda x: self.deserialize_column(column, x), value))
RECURSIVE deserialize_list(_, _, _)
deserialize_list(type, items, i) ==
    IF i > Len(items) THEN Vals(<<>>)
    ELSE ValsCons(deserialize_column(type, items[i]),
                  IF deserialize_column(type, items[i]).err.kind # "" THEN Vals(<<>>)
                  ELSE deserialize_list(type, items, i + 1))

ListVal(l) == [val |-> ListV(l.items), err |-> l.err]

(***************************************************************************)
(* The operators of sqlalchemy.sql.operators applied by _build_expression. *)
(* between_op and notbetween_op take two bounds (a, b, c): called with the *)
(* column and one value they raise TypeError.  in_ / notin_ iterate their  *)
(* operand: a string is taken character by character, a number or None is *)
(* not iterable.  has_all / has_any / has_key exist on ARRAY and JSON      *)
(* comparators only; the schema has no such column.                        *)
(***************************************************************************)
OperatorName(token) ==
    CASE token = "exact" -> "eq"
      [] token = "notexact" -> "ne"
      [] token = "gte" -> "ge"
      [] token = "lte" -> "le"
      [] token = "overlap" -> "&&"
      [] token \in {"iexact", "icontains", "istartswith", "iendswith"} -> "ilike"
      [] token \in {"notiexact", "noticontains", "notistartswith", "notiendswith"} -> "notilike"
      [] OTHER -> token

\* lines 63-64, 77-80: the pattern of the case-insensitive operators,
\* x with % and _ escaped, between the wildcards of the operator
LikePattern(token, x) ==
    [k |-> "pattern", n |-> x.n,
     lead |-> token \in {"icontains", "noticontains", "iendswith", "notiendswith"},
     trail |-> token \in {"icontains", "noticontains", "istartswith", "notistartswith"}]

Expr(e) == [expr |-> e, err |-> NoError]
ExprErr(err) == [expr |-> None, err |-> err]

build_expression(token, column_name, value) ==
    CASE token \in {"range", "notrange"} -> ExprErr(Raise("TypeError", <<>>))
      [] token \in {"in", "notin"} ->
            CASE value.k = "list" -> Expr(BinaryExpression(OperatorName(token), column_name, value))
              [] value.k = "str" ->
                    Expr(BinaryExpression(OperatorName(token), column_name, [k |-> "chars", n |-> value.n]))
              [] OTHER -> ExprErr(Raise("TypeError", <<>>))
      [] token \in {"hasall", "hasany", "haskey"} -> ExprErr(Raise("AttributeError", <<>>))
      [] token \in {"icontains", "noticontains", "istartswith", "notistartswith",
                    "iendswith", "notiendswith"} ->
            IF value.k # "str" THEN ExprErr(Raise("AttributeError", <<>>))
            ELSE Expr(BinaryExpression(OperatorName(token), column_name,
                                       LikePattern(token, value)))
      [] token = "isnull" ->
            Expr(BinaryExpression(IF Truthy(value) THEN "is" ELSE "isnot", column_name, NoneV))
      [] token = "isnotnull" ->
            Expr(BinaryExpression(IF Truthy(value) THEN "isnot" ELSE "is", column_name, NoneV))
      [] OTHER -> Expr(BinaryExpression(OperatorName(token), column_name, value))

(***************************************************************************)
(* The join/alias registry of one compilation: relationships['aliases']    *)
(* maps a relationship name to its number and its aliased classes,         *)
(* relationships['join_chains'] lists (join_chain, join_chain_ext,         *)
(* join_is_outer).                                                         *)
(***************************************************************************)
NewRelationships(prefix) == [aliases |-> <<>>, join_chains |-> <<>>, prefix |-> prefix]
JoinChain(chain, ext, outer) == [chain |-> chain, ext |-> ext, outer |-> outer]

\* aliases is kept as a sequence of entries [name, number, aliased]
AliasIndex(aliases, name) ==
    IF \E i \in 1..Len(aliases) : aliases[i].name = name
    THEN CHOOSE i \in 1..Len(aliases) : aliases[i].name = name
    ELSE 0

next_alias(aliases, name, obj_class, use_existing, prefix) ==
    LET i == AliasIndex(aliases, name)
    IN IF i # 0
       THEN IF use_existing
            THEN [aliases |-> aliases,
                  alias |-> aliases[i].aliased[Len(aliases[i].aliased)],
                  is_new |-> FALSE]
            ELSE LET number == aliases[i].number + 1
                     fresh == aliased(obj_class, prefix, name, number)
                     entry == [name |-> name, number |-> number,
                               aliased |-> Append(aliases[i].aliased, fresh)]
                 IN [aliases |-> [aliases EXCEPT ![i] = entry], alias |-> fresh, is_new |-> TRUE]
       ELSE LET fresh == aliased(obj_class, prefix, name, 1)
            IN [aliases |-> Append(aliases, [name |-> name, number |-> 1, aliased |-> <<fresh>>]),
                alias |-> fresh, is_new |-> TRUE]

(***************************************************************************)
(* AlchemyMixin._parse_tokens.  default_expression is "eq" for the filter  *)
(* builder (lambda c, n, v: operators.eq(n, deserialize_column(c, v))),    *)
(* "column" for the order builder (lambda c, n, v: n).                     *)
(***************************************************************************)
Parsed(expr, rels) == [expr |-> expr, rels |-> rels, err |-> NoError]
ParseError(err, rels) == [expr |-> None, rels |-> rels, err |-> err]

RegisterChain(rels, chain, ext, outer) ==
    IF chain # <<>>
    THEN [rels EXCEPT !.join_chains = Append(@, JoinChain(chain, ext, outer))]
    ELSE rels

EqExpression(column, d) ==
    IF d.err.kind # "" THEN ExprErr(d.err) ELSE Expr(BinaryExpression("eq", column, d.val))

default_expression_of(mode, column, value) ==
    IF mode = "eq" THEN EqExpression(column, deserialize_column(column.type, value))
    ELSE Expr(ColumnExpr(column))

\* lines 499-501: a scalar given to between_op / in_op becomes a list
coerce_multivalue(token, value) ==
    IF token \in {"range", "in"} /\ value.k # "list" THEN ListV(<<value>>) ELSE value

\* lines 503-507: every operand but that of isnull / isnotnull is deserialized
deserialize_operand(token, type, value) ==
    IF token # "isnull" /\ token # "isnotnull"
    THEN IF value.k = "list" THEN ListVal(deserialize_list(type, value.items, 1))
         ELSE deserialize_column(type, value)
    ELSE Val(value)

\* line 511: the operators that make the join chain an outer join
join_is_outer(token) == token = "isnull"

\* lines 511-515
register_operator(token, st, built) ==
    IF built.err.kind # "" THEN ParseError(built.err, st.rels)
    ELSE Parsed(built.expr, RegisterChain(st.rels, st.chain, st.ext, join_is_outer(token)))

\* line 509
build_operator(token, st, des) ==
    IF des.err.kind # "" THEN ParseError(des.err, st.rels)
    ELSE register_operator(token, st, build_expression(token, st.column, des.val))

\* lines 497-515: the token is an operator and a column is bound
parse_operator(token, st, value) ==
    build_operator(token, st,
                   deserialize_operand(token, st.column.type, coerce_multivalue(token, value)))

\* lines 538-545: the tokens are exhausted
DefaultOutcome(d, rels) ==
    IF d.err.kind # "" THEN ParseError(d.err, rels) ELSE Parsed(d.expr, rels)

parse_end(st, value, mode, rels) ==
    IF st.bound /\ mode # "none"
    THEN DefaultOutcome(default_expression_of(mode, st.column, value), rels)
    ELSE Parsed(None, rels)

\* lines 517-525: the token is a relationship of the current mapper
follow_relation(st, token, na) ==
    [st EXCEPT !.cls = RelationTarget(token),
               !.alias = na.alias,
               !.rels = [st.rels EXCEPT !.aliases = na.aliases],
               !.chain = Append(st.chain, token),
               !.ext = Append(st.ext, [alias |-> na.alias, rel |-> token])]

\* lines 534-536
bind_column(st, token) ==
    [st EXCEPT !.bound = TRUE, !.column = ColumnOf(st.alias, st.cls, token)]

\* func.plainto_tsquery('english', value) and tq.op('||' or '&&')(other)
plainto_tsquery(value) == [e |-> "plainto_tsquery", val |-> value]
TsOp(default_op, tq, other) ==
    [e |-> IF default_op = "or" THEN "||" ELSE "&&", args |-> <<tq, other>>]

\* what get_tsquery returns, and the list object it was given as it is afterwards
TsQuery(tq, value) == [tq |-> tq, value |-> value, err |-> NoError]
TsError(err, value) == [tq |-> None, value |-> value, err |-> err]
\* list.pop() on an empty list
IndexError == Raise("IndexError", <<>>)

\* list.pop(): the last element is removed from the list and returned
Last(items) == items[Len(items)]
Front(items) == SubSeq(items, 1, Len(items) - 1)

\* lines 551-552: while len(value): tq = tq.op(...)(plainto_tsquery(value.pop()))
RECURSIVE pop_rest(_, _, _)
pop_rest(tq, items, default_op) ==
    IF Len(items) = 0 THEN TsQuery(tq, ListV(items))
    ELSE pop_rest(TsOp(default_op, tq, plainto_tsquery(Last(items))), Front(items), default_op)

\* lines 547-555: AlchemyMixin.get_tsquery
get_tsquery(value, default_op) ==
    IF value.k = "list"
    THEN IF Len(value.items) = 0 THEN TsError(IndexError, value)
         ELSE pop_rest(plainto_tsquery(Last(value.items)), Front(value.items), default_op)
    ELSE TsQuery(plainto_tsquery(value), value)

\* line 495: default_op=or_ if tokens[-1] == 'or' else and_
text_query_op(tokens) == IF tokens[Len(tokens)] = "or" THEN "or" ELSE "and"

\* Model.get_term_query: column_name defaults to column_alias.name, and the
\* result is Function('to_tsvector', column_name).op('@@')(tq)
term_column(st) == IF st.bound THEN st.column ELSE ColumnOf(st.alias, st.cls, "name")

get_term_query(st, t, default_op) ==
    IF t.err.kind # "" THEN ParseError(t.err, st.rels)
    ELSE Parsed(TermQuery(st.alias, term_column(st), t.tq, default_op), st.rels)

\* lines 488-495: the free-text query marker
parse_text_query(st, tokens, value) ==
    IF ~HasTermQuery(st.cls) THEN ParseError(HTTPBadRequest(tokens), st.rels)
    ELSE get_term_query(st, get_tsquery(value, text_query_op(tokens)), text_query_op(tokens))

RECURSIVE parse_tokens_from(_, _, _, _, _)
parse_tokens_from(index, st, tokens, value, mode) ==
    IF index > Len(tokens)
    THEN parse_end(st, value, mode, RegisterChain(st.rels, st.chain, st.ext, FALSE))
    ELSE IF tokens[index] = PARAM_TEXT_QUERY THEN parse_text_query(st, tokens, value)
    ELSE IF st.bound /\ tokens[index] \in underscore_operators
    THEN parse_operator(tokens[index], st, value)
    ELSE IF tokens[index] \in Relations(st.cls)
    THEN parse_tokens_from(index + 1,
             follow_relation(st, tokens[index],
                 next_alias(st.rels.aliases, tokens[index], RelationTarget(tokens[index]),
                            TRUE, st.rels.prefix)),
             tokens, value, mode)
    ELSE IF tokens[index] \notin Columns(st.cls)
    THEN IF IGNORE_UNKNOWN_FILTER THEN Parsed(None, st.rels)
         ELSE ParseError(HTTPBadRequest(tokens), st.rels)
    ELSE parse_tokens_from(index + 1, bind_column(st, tokens[index]), tokens, value, mode)

parse_tokens(obj_class, tokens, value, rels, mode) ==
    parse_tokens_from(1,
        [cls |-> obj_class, alias |-> ClassAlias(obj_class), bound |-> FALSE,
         column |-> NoColumn, chain |-> <<>>, ext |-> <<>>, rels |-> rels],
        tokens, value, mode)

(***************************************************************************)
(* AlchemyMixin._build_filter_expressions and _parse_logical_op.           *)
(* A conditions mapping is the sequence of its items in iteration order.   *)
(***************************************************************************)
IsLogical(key) == Len(key) = 1 /\ key[1] \in logical_operators

\* variant: a single expression under NOT is returned without the negation
filter_result_unnegated(default_op, expressions) ==
    IF Len(expressions) > 1
    THEN IF default_op # "not" THEN Join(default_op, expressions) ELSE not_(and_(expressions))
    ELSE IF Len(expressions) = 1 THEN expressions[1]
    ELSE None

\* variant: a single expression is wrapped by the operator like several are
filter_result_wrapping(default_op, expressions) ==
    IF Len(expressions) >= 1
    THEN IF default_op # "not" THEN Join(default_op, expressions) ELSE not_(and_(expressions))
    ELSE None

\* lines 413-418: the expressions of one level joined by default_op
filter_result(default_op, expressions) ==
    IF Len(expressions) > 1
    THEN IF default_op # "not" THEN Join(default_op, expressions) ELSE not_(and_(expressions))
    ELSE IF Len(expressions) = 1
    THEN IF default_op # "not" THEN expressions[1] ELSE not_(expressions[1])
    ELSE None

\* lines 448-453: the group expressions of a list value joined by default_op
logical_result(default_op, expressions) ==
    IF Len(expressions) > 1
    THEN IF default_op # "not" THEN Join(default_op, expressions) ELSE not_(and_(expressions))
    ELSE IF Len(expressions) = 1
    THEN IF default_op # "not" THEN expressions[1] ELSE not_(expressions[1])
    ELSE None

\* variant: the elements of a list value are built under the enclosing operator
subconditions_inherit(default_op) == default_op

\* the operator under which the elements of a list value are built (line 445)
subconditions_op(default_op) == "and"

Collected(exprs, rels) == [exprs |-> exprs, rels |-> rels, err |-> NoError]
CollectError(err, rels) == [exprs |-> <<>>, rels |-> rels, err |-> err]
Keep(expr) == IF expr # None THEN <<expr>> ELSE <<>>
\* expressions.append(expression) in front of what the rest of the loop appends
Prepend(exprs, rest) == [rest EXCEPT !.exprs = exprs \o @]

RECURSIVE build_filter_expressions(_, _, _)
RECURSIVE parse_logical_op(_, _, _, _)
RECURSIVE filter_items(_, _, _)
RECURSIVE filter_next(_, _, _)
RECURSIVE logical_items(_, _, _, _)
RECURSIVE logical_next(_, _, _, _)

\* lines 405-412: the loop over conditions.items()
filter_items(conditions, i, rels) ==
    IF i > Len(conditions) THEN Collected(<<>>, rels)
    ELSE filter_next(conditions, i,
             IF IsLogical(conditions[i].key)
             THEN parse_logical_op(conditions[i].key[1], conditions[i].val,
                                   LogicalOp(conditions[i].key[1]), rels)
             ELSE parse_tokens(objects_class, conditions[i].key, conditions[i].val, rels, "eq"))

filter_next(conditions, i, r) ==
    IF r.err.kind # "" THEN CollectError(r.err, r.rels)
    ELSE Prepend(Keep(r.expr), filter_items(conditions, i + 1, r.rels))

filter_outcome(op, c) ==
    IF c.err.kind # "" THEN ParseError(c.err, c.rels)
    ELSE Parsed(filter_result(op, c.exprs), c.rels)

build_filter_expressions(conditions, default_op, rels) ==
    filter_outcome(IF default_op = "none" THEN "and" ELSE default_op,
                   filter_items(conditions, 1, rels))

\* lines 442-447: the loop over the elements of a list value
logical_items(arg, value, i, rels) ==
    IF i > Len(value) THEN Collected(<<>>, rels)
    ELSE IF value[i].k # "dict" THEN CollectError(HTTPBadRequest(<<arg>>), rels)
    ELSE logical_next(arg, value, i,
             build_filter_expressions(value[i].pairs, subconditions_op(arg), rels))

logical_next(arg, value, i, r) ==
    IF r.err.kind # "" THEN CollectError(r.err, r.rels)
    ELSE Prepend(Keep(r.expr), logical_items(arg, value, i + 1, r.rels))

logical_outcome(default_op, c) ==
    IF c.err.kind # "" THEN ParseError(c.err, c.rels)
    ELSE Parsed(logical_result(default_op, c.exprs), c.rels)

\* variant: a value that is neither a mapping nor a list is ignored
parse_logical_op_lenient(arg, value, default_op, rels) ==
    IF value.k = "dict" THEN build_filter_expressions(value.pairs, default_op, rels)
    ELSE IF value.k # "list" THEN Parsed(None, rels)
    ELSE logical_outcome(default_op, logical_items(arg, value.items, 1, rels))

parse_logical_op(arg, value, default_op, rels) ==
    IF value.k = "dict" THEN build_filter_expressions(value.pairs, default_op, rels)
    ELSE IF value.k # "list" THEN ParseError(HTTPBadRequest(<<arg>>), rels)
    ELSE logical_outcome(default_op, logical_items(arg, value.items, 1, rels))

(***************************************************************************)
(* AlchemyMixin._build_order_expressions.  A criterion is its sign ("+",   *)
(* "-" or ""), the tokens of the rest of the string, and the value of a    *)
(* mapping entry (None in the list form).                                  *)
(***************************************************************************)
Criterion(sign, key, val) == [sign |-> sign, key |-> key, val |-> val]

\* variant: the sign is stripped but every expression is kept ascending
Directed_ascending(arg, expr) == IF expr = None THEN <<>> ELSE <<expr>>

\* line 617
Directed(arg, expr) ==
    IF expr = None THEN <<>> ELSE IF arg.sign # "-" THEN <<expr>> ELSE <<desc(expr)>>

RECURSIVE order_items(_, _, _)
RECURSIVE order_next(_, _, _)

order_items(criteria, i, rels) ==
    IF i > Len(criteria) THEN Collected(<<>>, rels)
    ELSE IF criteria[i].sign = "" /\ criteria[i].key = <<"">>
    THEN CollectError(Raise("IndexError", <<>>), rels)
    ELSE order_next(criteria, i,
             parse_tokens(objects_class, criteria[i].key, criteria[i].val, rels, "column"))

order_next(criteria, i, r) ==
    IF r.err.kind # "" THEN CollectError(r.err, r.rels)
    ELSE Prepend(Directed(criteria[i], r.expr), order_items(criteria, i + 1, r.rels))

build_order_expressions(criteria, rels) == order_items(criteria, 1, rels)

(***************************************************************************)
(* AlchemyMixin._apply_joins.                                              *)
(***************************************************************************)
Range(seq) == {seq[i] : i \in 1..Len(seq)}

BaseQuery == [joins |-> <<>>, distinct |-> FALSE, filter |-> None, order |-> <<>>]

\* lines 366-375: the scan of the registry for chain a; the scan stops at
\* the first other chain that contains all tokens of a
is_longest(a, join_chains) ==
    ~\E j \in 1..Len(join_chains) :
        /\ join_chains[j].chain # a.chain
        /\ Range(a.chain) \subseteq Range(join_chains[j].chain)

any_is_outer(a, join_chains) ==
    a.outer \/ \E j \in 1..Len(join_chains) :
                  join_chains[j].chain = a.chain /\ join_chains[j].outer

\* variant: every longest chain is appended, already present or not
add_chain_again(longest, a, join_chains) ==
    IF is_longest(a, join_chains)
    THEN Append(longest, [ext |-> a.ext, outer |-> any_is_outer(a, join_chains)])
    ELSE longest

\* lines 376-377
add_chain(longest, a, join_chains) ==
    IF is_longest(a, join_chains)
       /\ [ext |-> a.ext, outer |-> any_is_outer(a, join_chains)] \notin Range(longest)
    THEN Append(longest, [ext |-> a.ext, outer |-> any_is_outer(a, join_chains)])
    ELSE longest

RECURSIVE longest_chains(_, _)
longest_chains(join_chains, n) ==
    IF n = 0 THEN <<>>
    ELSE add_chain(longest_chains(join_chains, n - 1), join_chains[n], join_chains)

\* variant: the joined query is returned without distinct()
joined_query_plain(q, chains, distinct) ==
    IF chains = <<>> THEN q ELSE [q EXCEPT !.joins = q.joins \o chains]

\* lines 378-384
joined_query(q, chains, distinct) ==
    IF chains = <<>> THEN q
    ELSE [q EXCEPT !.joins = q.joins \o chains,
                   !.distinct = IF distinct THEN TRUE ELSE q.distinct]

apply_joins(q, rels, distinct) ==
    joined_query(q, longest_chains(rels.join_chains, Len(rels.join_chains)), distinct)

(***************************************************************************)
(* AlchemyMixin._filter_or_exclude, filter_by, exclude_by, order_by.       *)
(***************************************************************************)
Result(q, rels) == [query |-> q, rels |-> rels, err |-> NoError]
Failed(err) == [query |-> BaseQuery, rels |-> NewRelationships(""), err |-> err]

\* lines 357-361: query.filter(expressions) and query.order_by(*order_expressions)
filtered_and_ordered(joined, expressions, order_criteria, order_expressions) ==
    [joined EXCEPT !.filter = IF expressions # None THEN expressions ELSE @,
                   !.order = IF order_criteria # <<>> /\ order_expressions # <<>>
                             THEN order_expressions ELSE @]

\* lines 356-361, o being the outcome of the order builder
apply_and_filter(q, expressions, order_criteria, o) ==
    IF o.err.kind # "" THEN Failed(o.err)
    ELSE Result(filtered_and_ordered(apply_joins(q, o.rels, expressions # None),
                                     expressions, order_criteria, o.exprs),
                o.rels)

\* lines 353-361, f being the outcome of the filter builder
order_and_join(q, order_criteria, f) ==
    IF f.err.kind # "" THEN Failed(f.err)
    ELSE apply_and_filter(q, f.expr, order_criteria,
                          IF order_criteria # <<>>
                          THEN build_order_expressions(order_criteria, f.rels)
                          ELSE Collected(<<>>, f.rels))

filter_or_exclude(q, conditions, default_op, order_criteria) ==
    order_and_join(q, order_criteria,
                   build_filter_expressions(conditions, default_op, NewRelationships("")))

filter_by(q, conditions, order_criteria) ==
    filter_or_exclude(q, conditions, "none", order_criteria)

exclude_by(q, conditions) ==
    filter_or_exclude(q, <<Item(<<"not">>, DictV(<<Item(<<"and">>, DictV(conditions))>>))>>,
                      "none", <<>>)

ordered_query(q, o) ==
    IF o.err.kind # "" THEN Failed(o.err)
    ELSE Result([apply_joins(q, o.rels, FALSE) EXCEPT !.order = o.exprs], o.rels)

order_by(q, criteria) ==
    ordered_query(q, build_order_expressions(criteria, NewRelationships("")))

(***************************************************************************)
(* The document backend.  The mapping of the test suite: Model with the    *)
(* fields id, name and the Nested field other_models (id, name).  A field  *)
(* name is the sequence of the tokens that, joined with "__", spell it.    *)
(***************************************************************************)
DocFields(mapping) ==
    CASE mapping = "Model" -> {<<"id">>, <<"name">>, <<"other_models">>}
      [] mapping = "other_models" -> {<<"id">>, <<"name">>}
      [] mapping = "WideModel" ->
            {<<"id">>, <<"other_models">>, <<"other_models", "name">>, <<"first", "name">>}
      [] OTHER -> {}

IsNested(mapping, name) == mapping \in {"Model", "WideModel"} /\ name = <<"other_models">>
NestedMapping(name) == name[1]
NestedDocClass(name) == "OtherModel"
\* Field._multi of a non-nested field
FieldMulti(mapping, name) == FALSE
\* the field has a not_analyzed sub-field raw
FieldHasRaw(mapping, name) == mapping = "other_models" /\ name = <<"name">>

es_underscore_operators ==
    [t \in {"exact", "notexact", "gt", "lt", "gte", "lte", "range", "notrange",
            "in", "notin", "contains", "notcontains", "match", "notmatch",
            "startswith", "notstartswith", "endswith", "notendswith",
            "hasall", "hasany", "haskey", "overlap", "isnull", "isnotnull"} |->
        CASE t \in {"exact", "notexact", "hasall", "haskey"} -> "term"
          [] t \in {"gt", "lt", "gte", "lte", "range", "notrange"} -> "range"
          [] t \in {"in", "notin", "hasany", "overlap"} -> "terms"
          [] t \in {"contains", "notcontains", "endswith", "notendswith"} -> "wildcard"
          [] t \in {"match", "notmatch"} -> "match"
          [] t \in {"startswith", "notstartswith"} -> "prefix"
          [] t = "isnull" -> "missing"
          [] OTHER -> "exists"]

\* or -> should, and -> must, not -> must_not
es_logical_operators(arg) ==
    CASE arg = "or" -> "should" [] arg = "and" -> "must" [] OTHER -> "must_not"

EsColumn(nested_name, name, raw) == [nested |-> nested_name, name |-> name, raw |-> raw]
NoEsColumn == EsColumn(<<>>, <<>>, FALSE)

\* {op: {...}} with the optional '_expand__to_dot': False
EsLeaf(op, column_name, arg, prevent_expand) ==
    [e |-> "leaf", q |-> op, field |-> column_name, arg |-> arg, no_expand |-> prevent_expand]
EsBool(occur, clauses) == [e |-> "bool", occur |-> occur, clauses |-> clauses, single |-> FALSE]
EsBoolOne(occur, clause) == [e |-> "bool", occur |-> occur, clauses |-> <<clause>>, single |-> TRUE]
EsNested(path, q) == [e |-> "nested", path |-> path, query |-> q]
EsMatch(column_name, val, op) == [e |-> "match", field |-> column_name, val |-> val, op |-> op]

NotPrefixed(token) ==
    token \in {"notexact", "notrange", "notin", "notcontains", "notmatch",
               "notstartswith", "notendswith"}

\* lines 203-232: the token is an operator and a column is bound
es_parse_operator(token, column_name, mapping, name, nested_name, value, prevent_expand) ==
    LET op == es_underscore_operators[token]
        multi == FieldMulti(mapping, name)
        v == IF (token \in {"range", "notrange", "in", "notin", "hasany", "overlap"}
                   \/ (token \in {"contains", "notcontains"} /\ multi))
                /\ value.k # "list"
             THEN ListV(<<value>>) ELSE value
        leaf(o, arg) == Expr(EsLeaf(o, column_name, arg, prevent_expand))
        built ==
            IF op \in {"missing", "exists"} THEN leaf(op, [a |-> "field"])
            ELSE IF op = "range"
            THEN IF token # "range" THEN leaf(op, [a |-> "bound", tok |-> token, val |-> v])
                 ELSE IF v.k = "list" /\ Len(v.items) < 2 THEN ExprErr(Raise("IndexError", <<>>))
                 ELSE IF v.k # "list" THEN ExprErr(Raise("TypeError", <<>>))
                 ELSE leaf(op, [a |-> "between", gte |-> v.items[1], lte |-> v.items[2]])
            ELSE IF op = "wildcard"
            THEN IF token \in {"contains", "notcontains"} /\ multi
                 THEN leaf("terms", [a |-> "value", val |-> v])
                 ELSE IF v.k # "str" THEN ExprErr(Raise("TypeError", <<>>))
                 ELSE leaf(op, [a |-> "wildcard", val |-> v,
                                trail |-> token \in {"contains", "notcontains"}])
            ELSE leaf(op, [a |-> "value", val |-> v])
        negated == IF NotPrefixed(token) THEN EsBoolOne("must_not", built.expr) ELSE built.expr
    IN IF built.err.kind # "" THEN built
       ELSE IF nested_name # <<>> THEN Expr(EsNested(nested_name, negated))
       ELSE Expr(negated)

\* default_expression: "term" for the filter builder, "name" for lambda n, v: n
es_default_expression(mode, column_name, value, prevent_expand) ==
    IF mode = "term"
    THEN EsLeaf("term", column_name, [a |-> "value", val |-> value], prevent_expand)
    ELSE [e |-> "column", field |-> column_name]

RECURSIVE es_parse_tokens_from(_, _, _, _, _, _, _)
es_parse_tokens_from(index, st, tokens, value, mode, prevent_expand, prefer_raw) ==
    IF index > Len(tokens)
    THEN IF ~st.bound THEN ExprErr(HTTPBadRequest(tokens))
         ELSE IF mode # "none"
         THEN LET expression == es_default_expression(mode, st.column_name, value, prevent_expand)
              IN IF st.nested_name # <<>> THEN Expr(EsNested(st.nested_name, expression))
                 ELSE Expr(expression)
         ELSE Expr(None)
    ELSE LET token == tokens[index]
         IN IF token = PARAM_TEXT_QUERY
            THEN IF ~HasTermQuery(st.cls) THEN ExprErr(HTTPBadRequest(tokens))
                 ELSE Expr(EsMatch(st.column_name, value,
                                   IF tokens[Len(tokens)] = "or" THEN "should" ELSE "must"))
            ELSE IF st.bound
            THEN IF token \notin DOMAIN es_underscore_operators
                 THEN ExprErr(HTTPBadRequest(tokens))
                 ELSE es_parse_operator(token, st.column_name, st.mapping, st.name,
                                        st.nested_name, value, prevent_expand)
            ELSE LET hop == st.accumulated # <<>> /\ st.accumulated \in DocFields(st.mapping)
                            /\ IsNested(st.mapping, st.accumulated)
                     s1 == IF hop
                           THEN [st EXCEPT !.nested_name = st.accumulated,
                                           !.cls = NestedDocClass(st.accumulated),
                                           !.mapping = NestedMapping(st.accumulated),
                                           !.accumulated = <<>>]
                           ELSE st
                     acc == Append(s1.accumulated, token)
                     binds == acc \in DocFields(s1.mapping) /\ ~IsNested(s1.mapping, acc)
                     s2 == IF binds
                           THEN [s1 EXCEPT !.accumulated = acc, !.bound = TRUE, !.name = acc,
                                           !.column_name =
                                               EsColumn(s1.nested_name, acc,
                                                        prefer_raw /\ FieldHasRaw(s1.mapping, acc))]
                           ELSE [s1 EXCEPT !.accumulated = acc]
                 IN es_parse_tokens_from(index + 1, s2, tokens, value, mode,
                                         prevent_expand, prefer_raw)

es_parse_tokens(obj_class, tokens, value, mode, prevent_expand, prefer_raw) ==
    es_parse_tokens_from(1,
        [cls |-> obj_class, mapping |-> obj_class, bound |-> FALSE, column_name |-> NoEsColumn,
         name |-> <<>>, nested_name |-> <<>>, accumulated |-> <<>>],
        tokens, value, mode, prevent_expand, prefer_raw)

(***************************************************************************)
(* ElasticSearchMixin._group_nested.  A nested path is the accumulated     *)
(* name of a Nested field, which holds no "." (names are joined with       *)
(* "__"), so part['nested']['path'].count('.') is 0 for every path that    *)
(* _parse_tokens produces.                                                 *)
(***************************************************************************)
DotCount(path) == 0

IsNestedPart(part) == part.e = "nested"

RECURSIVE longest_path_from(_, _, _)
longest_path_from(expressions, i, longest) ==
    IF i > Len(expressions) THEN longest
    ELSE LET part == expressions[i]
         IN IF IsNestedPart(part)
               /\ (longest = <<>> \/ DotCount(part.path) > DotCount(longest))
            THEN longest_path_from(expressions, i + 1, part.path)
            ELSE longest_path_from(expressions, i + 1, longest)

RECURSIVE group_nested(_, _)
group_nested(expressions, op) ==
    LET longest_path == longest_path_from(expressions, 1, <<>>)
        InGroup(part) == IsNestedPart(part) /\ part.path = longest_path
        NotInGroup(part) == ~InGroup(part)
        members == SelectSeq(expressions, InGroup)
        group == [i \in 1..Len(members) |-> members[i].query]
        new_parts == SelectSeq(expressions, NotInGroup)
    IN IF longest_path = <<>> THEN expressions
       ELSE IF Len(group) <= 1 THEN expressions
       ELSE group_nested(Append(new_parts, EsNested(longest_path, EsBool(op, group))), op)

(***************************************************************************)
(* ElasticSearchMixin._build_filter_expressions and _parse_logical_op.     *)
(***************************************************************************)
\* lines 121-128
es_filter_result(default_op, expressions) ==
    LET grouped == IF Len(expressions) > 1 THEN group_nested(expressions, default_op)
                   ELSE expressions
    IN IF Len(grouped) > 1 THEN EsBool(default_op, grouped)
       ELSE IF Len(grouped) = 1
       THEN IF default_op # "must_not" THEN grouped[1] ELSE EsBoolOne("must_not", grouped[1])
       ELSE None

\* lines 176-183
es_logical_result(op, parts) ==
    LET grouped == IF Len(parts) > 1 THEN group_nested(parts, op) ELSE parts
    IN IF Len(grouped) > 1 THEN EsBool(op, grouped)
       ELSE IF Len(grouped) = 1
       THEN IF op # "must_not" THEN grouped[1] ELSE EsBoolOne("must_not", grouped[1])
       ELSE None

\* the operator under which the elements of a list value are built (line 173)
es_subconditions_op(op) == "must"

EsCollected(exprs) == [exprs |-> exprs, err |-> NoError]
EsCollectError(err) == [exprs |-> <<>>, err |-> err]

RECURSIVE es_build_filter_expressions(_, _, _)
RECURSIVE es_parse_logical_op(_, _, _, _)
RECURSIVE es_filter_items(_, _, _)
RECURSIVE es_logical_items(_, _, _, _)

es_filter_items(conditions, i, prevent_expand) ==
    IF i > Len(conditions) THEN EsCollected(<<>>)
    ELSE LET arg == conditions[i].key
             value == conditions[i].val
             r == IF IsLogical(arg)
                  THEN es_parse_logical_op(arg[1], value, es_logical_operators(arg[1]), prevent_expand)
                  ELSE es_parse_tokens(objects_class, arg, value, "term", prevent_expand, FALSE)
         IN IF r.err.kind # "" THEN EsCollectError(r.err)
            ELSE LET rest == es_filter_items(conditions, i + 1, prevent_expand)
                 IN [exprs |-> Keep(r.expr) \o rest.exprs, err |-> rest.err]

es_build_filter_expressions(conditions, default_op, prevent_expand) ==
    LET op == IF default_op = "none" THEN "must" ELSE default_op
        c == es_filter_items(conditions, 1, prevent_expand)
    IN IF c.err.kind # "" THEN ExprErr(c.err)
       ELSE Expr(es_filter_result(op, c.exprs))

es_logical_items(arg, value, i, prevent_expand) ==
    IF i > Len(value) THEN EsCollected(<<>>)
    ELSE IF value[i].k # "dict" THEN EsCollectError(HTTPBadRequest(<<arg>>))
    ELSE LET r == es_build_filter_expressions(value[i].pairs, es_subconditions_op(arg),
                                              prevent_expand)
         IN IF r.err.kind # "" THEN EsCollectError(r.err)
            ELSE LET rest == es_logical_items(arg, value, i + 1, prevent_expand)
                 IN [exprs |-> Keep(r.expr) \o rest.exprs, err |-> rest.err]

es_parse_logical_op(arg, value, op, prevent_expand) ==
    IF value.k = "dict" THEN es_build_filter_expressions(value.pairs, op, prevent_expand)
    ELSE IF value.k # "list" THEN ExprErr(HTTPBadRequest(<<arg>>))
    ELSE LET c == es_logical_items(arg, value.items, 1, prevent_expand)
         IN IF c.err.kind # "" THEN ExprErr(c.err)
            ELSE Expr(es_logical_result(op, c.exprs))

(***************************************************************************)
(* ElasticSearchMixin.filter_by.  The search is the query it carries and   *)
(* whether the query is wrapped in constant_score.                         *)
(***************************************************************************)
BaseSearch == [query |-> None, constant_score |-> FALSE]

es_filter_by(search, conditions, order_criteria) ==
    LET f == es_build_filter_expressions(conditions, "none", TRUE)
        done(q) == [query |-> q, rels |-> NewRelationships(""), err |-> NoError]
    IN IF f.err.kind # "" THEN [query |-> BaseSearch, rels |-> NewRelationships(""), err |-> f.err]
       ELSE IF f.expr = None THEN done(search)
       ELSE IF order_criteria # <<>> /\ "_score" \notin Range(order_criteria)
               /\ "-_score" \notin Range(order_criteria)
       THEN done([query |-> f.expr, constant_score |-> TRUE])
       ELSE done([query |-> f.expr, constant_score |-> FALSE])

(***************************************************************************)
(* The inputs of the model: conditions mappings and order criteria over    *)
(* the schema above, with valid, unknown and relationship-only paths,      *)
(* scalar and list values, and logical keys holding mappings, lists of     *)
(* mappings and invalid values.                                            *)
(***************************************************************************)
LeafKeys ==
    {<<"name">>, <<"name", "exact">>, <<"id">>, <<"id", "exact">>, <<"id", "gte">>,
     <<"id", "in">>, <<"id", "notin">>, <<"id", "range">>, <<"id", "notrange">>,
     <<"id", "hasany">>, <<"id", "overlap">>, <<"id", "isnull">>,
     <<"other_models", "name">>, <<"other_models", "name", "exact">>,
     <<"other_models", "id">>, <<"other_models", "id", "exact">>,
     <<"other_models", "id", "isnull">>, <<"other_models", "id", "isnotnull">>,
     <<"other_models", "id", "in">>, <<"other_models", "id", "notin">>,
     <<"other_models", "third_models", "name">>,
     <<"other_models", "third_models", "name", "exact">>,
     <<"other_models", "third_models", "id", "isnotnull">>,
     <<"other_models", "models", "name">>,
     <<"other_models", "models", "other_models", "name">>,
     <<"other_models", "third_models", "other_model", "name">>,
     <<"other_models">>, <<"other_models", "third_models">>,
     <<"bogus_field">>, <<"other_models", "bogus">>, <<"name", "bogus">>}

LeafValues ==
    {IntV(1), StrV(1), NoneV, ListV(<<IntV(1)>>), ListV(<<StrV(1)>>),
     ListV(<<IntV(1), IntV(2)>>)}

CoreLeaves ==
    {Item(<<"name">>, StrV(1)),
     Item(<<"id", "gte">>, IntV(1)),
     Item(<<"other_models", "name">>, StrV(1)),
     Item(<<"other_models", "id">>, IntV(1)),
     Item(<<"other_models", "id", "isnull">>, BoolV(TRUE)),
     Item(<<"other_models", "id", "isnotnull">>, BoolV(FALSE)),
     Item(<<"other_models", "third_models", "name">>, StrV(1)),
     Item(<<"other_models", "third_models", "id", "isnull">>, BoolV(TRUE)),
     Item(<<"other_models", "models", "name">>, StrV(1)),
     Item(<<"other_models">>, IntV(1)),
     Item(<<"bogus_field">>, IntV(1))}

SubLeaves ==
    {Item(<<"name">>, StrV(1)),
     Item(<<"other_models", "name">>, StrV(1)),
     Item(<<"other_models", "id", "isnull">>, BoolV(TRUE))}

\* the invalid values of a logical key, and the invalid elements of its list
BadValues == {IntV(1), NoneV}

SeqsUpTo(S, n) == UNION {[1..m -> S] : m \in 0..n}
DistinctKeys(c) == \A i, j \in 1..Len(c) : i # j => c[i].key # c[j].key
Mappings(leaves, n) == {c \in SeqsUpTo(leaves, n) : DistinctKeys(c)}

SingleConds == {<<Item(key, v)>> : key \in LeafKeys, v \in LeafValues}
FlatConds == Mappings(CoreLeaves, MaxConds)
SmallGroups == Mappings(SubLeaves, MaxConds)
GroupLists == SeqsUpTo({DictV(g) : g \in SmallGroups} \cup {IntV(1)}, MaxList)

LogicalKey(arg) == <<arg>>
LogicalDicts == {<<Item(LogicalKey(arg), DictV(c))>> : arg \in logical_operators, c \in FlatConds}
LogicalLists == {<<Item(LogicalKey(arg), ListV(l))>> : arg \in logical_operators, l \in GroupLists}
LogicalBad == {<<Item(LogicalKey(arg), v)>> : arg \in logical_operators, v \in BadValues}
SmallLogical ==
    {Item(LogicalKey(arg), v) : arg \in logical_operators,
         v \in {DictV(g) : g \in SmallGroups} \cup BadValues \cup {ListV(<<>>)}}
Mixed ==
    {<<l, x>> : l \in SubLeaves, x \in SmallLogical}
        \cup {<<x, l>> : l \in SubLeaves, x \in SmallLogical}
Siblings == {c \in {<<x, y>> : x \in SmallLogical, y \in SmallLogical} : DistinctKeys(c)}
Deep ==
    {<<Item(LogicalKey(arg), DictV(c))>> : arg \in logical_operators, c \in Mixed}

\* {"and": C} and {"not": {"and": C}}, the mapping exclude_by compiles
AndOf(c) == <<Item(LogicalKey("and"), DictV(c))>>
NotAndOf(c) == <<Item(LogicalKey("not"), DictV(AndOf(c)))>>
Excluded == {NotAndOf(c) : c \in FlatConds}

\* conditions along the cycle Model.other_models -> OtherModel.models
CyclicLeaves ==
    {Item(<<"other_models", "name">>, StrV(1)),
     Item(<<"other_models", "models", "name">>, StrV(1)),
     Item(<<"other_models", "models", "other_models", "name">>, StrV(1))}
Cyclic == Mappings(CyclicLeaves, 2)

Conditions ==
    SingleConds \cup FlatConds \cup LogicalDicts \cup LogicalLists \cup LogicalBad
        \cup Mixed \cup Siblings \cup Deep \cup Excluded \cup Cyclic

OrderArgs ==
    {Criterion("", <<"other_models", "name">>, NoneV),
     Criterion("-", <<"name">>, NoneV),
     Criterion("+", <<"other_models", "id">>, NoneV),
     Criterion("-", <<"other_models", "third_models", "name">>, NoneV),
     Criterion("", <<"other_models">>, NoneV),
     Criterion("", <<"other_models", "id", "isnull">>, BoolV(TRUE)),
     Criterion("", <<"bogus_field">>, NoneV)}

OrderCriteria == SeqsUpTo(OrderArgs, MaxList)
EsOrderCriteria == {<<>>, <<"name">>, <<"-_score">>, <<"name", "_score">>}

FilterCalls ==
    {<<c, <<>>>> : c \in Conditions}
        \cup {<<c, <<o>>>> : c \in FlatConds, o \in OrderArgs}
EsFilterCalls ==
    {<<c, <<>>>> : c \in Conditions}
        \cup {<<c, o>> : c \in FlatConds, o \in EsOrderCriteria}

(***************************************************************************)
(* The state machine: a caller invokes one operation on a fresh query and  *)
(* receives the resulting query or the error raised.                       *)
(***************************************************************************)
NoCall == [op |-> "", conditions |-> <<>>, order |-> <<>>, es_order |-> <<>>]

Init ==
    /\ pc = "idle"
    /\ call = NoCall
    /\ relationships = NewRelationships("")
    /\ query = BaseQuery
    /\ error = NoError
    /\ session = NoSession
    /\ store = NoStore

\* the call c completes with the result r
Completes(c, r) ==
    /\ call' = c
    /\ relationships' = r.rels
    /\ query' = r.query
    /\ error' = r.err
    /\ pc' = "done"
    /\ UNCHANGED <<session, store>>

FilterBy ==
    /\ pc = "idle"
    /\ \E in \in FilterCalls :
          Completes([NoCall EXCEPT !.op = "filter_by", !.conditions = in[1], !.order = in[2]],
                    filter_by(BaseQuery, in[1], in[2]))

ExcludeBy ==
    /\ pc = "idle"
    /\ \E c \in Conditions :
          Completes([NoCall EXCEPT !.op = "exclude_by", !.conditions = c],
                    exclude_by(BaseQuery, c))

OrderBy ==
    /\ pc = "idle"
    /\ \E o \in OrderCriteria :
          Completes([NoCall EXCEPT !.op = "order_by", !.order = o], order_by(BaseQuery, o))

EsFilterBy ==
    /\ pc = "idle"
    /\ \E in \in EsFilterCalls :
          Completes([NoCall EXCEPT !.op = "es_filter_by", !.conditions = in[1],
                                   !.es_order = in[2]],
                    es_filter_by(BaseSearch, in[1], in[2]))

\* the caller drops the result; the next request starts from a fresh query
Return ==
    /\ pc = "done"
    /\ pc' = "idle"
    /\ call' = NoCall
    /\ relationships' = NewRelationships("")
    /\ query' = BaseQuery
    /\ error' = NoError
    /\ UNCHANGED <<session, store>>

Next == FilterBy \/ ExcludeBy \/ OrderBy \/ EsFilterBy \/ Return

Spec == Init /\ [][Next]_vars

(***************************************************************************)
(* Properties of a completed compilation.                                  *)
(***************************************************************************)
RelationalOps == {"filter_by", "exclude_by", "order_by"}
FilterOps == {"filter_by", "exclude_by"}

\* the relationship path a join sequence follows
PathOf(ext) == [k \in 1..Len(ext) |-> ext[k].rel]

NotNone(e) == e # None

\* the leaf conditions anywhere in a conditions tree
RECURSIVE Leaves(_)
LeavesOf(item) ==
    IF ~IsLogical(item.key) THEN {item}
    ELSE IF item.val.k = "dict" THEN Leaves(item.val.pairs)
    ELSE IF item.val.k = "list"
    THEN UNION {IF item.val.items[j].k = "dict" THEN Leaves(item.val.items[j].pairs) ELSE {}
                   : j \in 1..Len(item.val.items)}
    ELSE {}
Leaves(conditions) == UNION {LeavesOf(conditions[i]) : i \in 1..Len(conditions)}

\* the leaf compiles on its own
LeafParses(item) ==
    parse_tokens(objects_class, item.key, item.val, NewRelationships(""), "eq").err.kind = ""

\* C1: in a relational compilation, clauses that follow the same relationship
\* path share one alias chain, no two materialized join sequences follow the
\* same path, and when every clause follows one path exactly one join
\* sequence is materialized for it.
C1_SharedPathOneJoin ==
    (pc = "done" /\ call.op \in RelationalOps /\ error.kind = "") =>
        LET chains == relationships.join_chains
            joins == query.joins
        IN /\ \A i, j \in 1..Len(chains) :
                 chains[i].chain = chains[j].chain => chains[i].ext = chains[j].ext
           /\ \A i, j \in 1..Len(joins) :
                 PathOf(joins[i].ext) = PathOf(joins[j].ext) => i = j
           /\ \A i \in 1..Len(chains) :
                 (\A j \in 1..Len(chains) : chains[j].chain = chains[i].chain)
                    => Len(joins) = 1 /\ joins[1].ext = chains[i].ext

\* a filter on other_models__name ordered by other_models__id: one join
C1_FilterAndOrderShareJoin ==
    /\ pc = "done" /\ call.op = "filter_by" /\ error.kind = ""
    /\ call.conditions = <<Item(<<"other_models", "name">>, StrV(1))>>
    /\ call.order = <<Criterion("+", <<"other_models", "id">>, NoneV)>>
    /\ Len(relationships.join_chains) = 2
    /\ Len(query.joins) = 1
    /\ PathOf(query.joins[1].ext) = <<"other_models">>

Negation(e) == IF e = None THEN None ELSE not_(e)
EsNegation(e) == IF e = None THEN None ELSE EsBoolOne("must_not", e)

IsNotAndOf(conditions) ==
    /\ Len(conditions) = 1
    /\ conditions[1].key = <<"not">>
    /\ conditions[1].val.k = "dict"
    /\ Len(conditions[1].val.pairs) = 1
    /\ conditions[1].val.pairs[1].key = <<"and">>
    /\ conditions[1].val.pairs[1].val.k = "dict"

\* C2: compiling {"not": {"and": C}} gives the negation of what compiling
\* {"and": C} gives (None when that is None, the same error when that fails),
\* in the relational backend (exclude_by) and in the document backend.
C2_ExcludeIsNegation ==
    /\ (pc = "done" /\ call.op = "exclude_by") =>
          LET f == build_filter_expressions(AndOf(call.conditions), "none", NewRelationships(""))
          IN /\ error = f.err
             /\ error.kind = "" => query.filter = Negation(f.expr)
    /\ (pc = "done" /\ call.op = "es_filter_by" /\ IsNotAndOf(call.conditions)) =>
          LET f == es_build_filter_expressions(
                       AndOf(call.conditions[1].val.pairs[1].val.pairs), "none", TRUE)
          IN /\ error = f.err
             /\ error.kind = "" => query.query = EsNegation(f.expr)

\* exclude_by of two leaves: NOT over their AND
C2_ExcludeTwoLeaves ==
    /\ pc = "done" /\ call.op = "exclude_by" /\ error.kind = ""
    /\ Len(call.conditions) = 2
    /\ query.filter.e = "not"
    /\ query.filter.args[1].e = "and"
    /\ Len(query.filter.args[1].args) = 2

\* the paths that end on a field, without an operator
FieldPaths ==
    {key \in LeafKeys :
        parse_tokens(objects_class, key, NoneV, NewRelationships(""), "column").expr.e = "column"}

\* C3: for a field path and any value, the query, the join registry and the
\* error of compiling {"path": v} are those of compiling {"path__exact": v},
\* in both backends.
C3_DefaultIsExact ==
    (/\ pc = "done" /\ call.op \in {"filter_by", "es_filter_by"}
     /\ call.order = <<>> /\ call.es_order = <<>>
     /\ Len(call.conditions) = 1
     /\ call.conditions[1].key \in FieldPaths) =>
        LET exact == <<Item(Append(call.conditions[1].key, "exact"), call.conditions[1].val)>>
            r == IF call.op = "filter_by" THEN filter_by(BaseQuery, exact, <<>>)
                 ELSE es_filter_by(BaseSearch, exact, <<>>)
        IN query = r.query /\ relationships = r.rels /\ error = r.err

MultiValueOperators(op) ==
    IF op = "filter_by" THEN {"range", "notrange", "in", "notin"}
    ELSE {"range", "notrange", "in", "notin", "hasany", "overlap"}

\* C4: for a multi-value operator and a scalar v, compiling field__op with v
\* has the outcome of compiling it with the one-element list [v], in both
\* backends.
C4_ScalarIsSingleton ==
    (/\ pc = "done" /\ call.op \in {"filter_by", "es_filter_by"}
     /\ call.order = <<>> /\ call.es_order = <<>>
     /\ Len(call.conditions) = 1
     /\ Len(call.conditions[1].key) >= 2
     /\ call.conditions[1].key[Len(call.conditions[1].key)] \in MultiValueOperators(call.op)
     /\ call.conditions[1].val.k \in {"int", "str", "bool"}) =>
        LET listed == <<Item(call.conditions[1].key, ListV(<<call.conditions[1].val>>))>>
            r == IF call.op = "filter_by" THEN filter_by(BaseQuery, listed, <<>>)
                 ELSE es_filter_by(BaseSearch, listed, <<>>)
        IN query = r.query /\ relationships = r.rels /\ error = r.err

\* the paths of the inputs that never bind a field
UnboundPaths ==
    {<<"bogus_field">>, <<"other_models", "bogus">>, <<"other_models">>,
     <<"other_models", "third_models">>}

\* C5: a filter key that never binds a field raises the invalid-attribute
\* error naming the parameter, and leaves no expression and no join, in both
\* backends.
C5_UnboundPathRejected ==
    (/\ pc = "done" /\ call.op \in {"filter_by", "es_filter_by"}
     /\ Len(call.conditions) = 1
     /\ call.conditions[1].key \in UnboundPaths) =>
        /\ error = HTTPBadRequest(call.conditions[1].key)
        /\ query = IF call.op = "filter_by" THEN BaseQuery ELSE BaseSearch
        /\ relationships.join_chains = <<>>

\* the combination rule: no child, one child, several children
CombineRule(op, children) ==
    CASE Len(children) = 0 -> None
      [] Len(children) = 1 -> IF op = "not" THEN not_(children[1]) ELSE children[1]
      [] OTHER -> CASE op = "and" -> and_(children)
                    [] op = "or" -> or_(children)
                    [] OTHER -> not_(and_(children))

\* the expression of a level, every child compiled on its own
RECURSIVE LevelExpression(_, _)
ChildExpression(item) ==
    IF ~IsLogical(item.key)
    THEN parse_tokens(objects_class, item.key, item.val, NewRelationships(""), "eq").expr
    ELSE IF item.val.k = "dict" THEN LevelExpression(item.val.pairs, item.key[1])
    ELSE CombineRule(item.key[1],
             SelectSeq([j \in 1..Len(item.val.items) |->
                           LevelExpression(item.val.items[j].pairs, "and")], NotNone))
LevelExpression(conditions, op) ==
    CombineRule(op, SelectSeq([i \in 1..Len(conditions) |-> ChildExpression(conditions[i])],
                              NotNone))

\* C6: at every level of the relational filter builder the non-None children
\* are combined by the rule: none gives None, one gives the child (negated
\* under NOT), several are joined by the level's operator, AND at the top;
\* children that compile to None are dropped.
C6_CombineRule ==
    /\ (pc = "done" /\ call.op = "filter_by" /\ error.kind = "") =>
          query.filter = LevelExpression(call.conditions, "and")
    /\ (pc = "done" /\ call.op = "exclude_by" /\ error.kind = "") =>
          query.filter = LevelExpression(NotAndOf(call.conditions), "and")

\* {"not": {"name": v, "or": {}}}: the empty group is dropped, the single
\* child is negated
C6_SingleChildUnderNot ==
    /\ pc = "done" /\ call.op = "filter_by" /\ error.kind = ""
    /\ call.conditions =
          <<Item(<<"not">>, DictV(<<Item(<<"name">>, StrV(1)), Item(<<"or">>, DictV(<<>>))>>))>>
    /\ query.filter =
          not_(BinaryExpression("eq", ColumnOf(ClassAlias("Model"), "Model", "name"), StrV(1)))

IsLogicalList(conditions) ==
    /\ Len(conditions) = 1
    /\ IsLogical(conditions[1].key)
    /\ conditions[1].val.k = "list"

RECURSIVE FirstInvalid(_)
RECURSIVE FirstInvalidInList(_, _)
FirstInvalidIn(item) ==
    IF ~IsLogical(item.key) THEN ""
    ELSE IF item.val.k = "dict" THEN FirstInvalid(item.val.pairs)
    ELSE IF item.val.k # "list" THEN item.key[1]
    ELSE FirstInvalidInList(item.key[1], item.val.items)
FirstInvalidInList(arg, items) ==
    IF items = <<>> THEN ""
    ELSE IF Head(items).k # "dict" THEN arg
    ELSE IF FirstInvalid(Head(items).pairs) # "" THEN FirstInvalid(Head(items).pairs)
    ELSE FirstInvalidInList(arg, Tail(items))
FirstInvalid(conditions) ==
    IF conditions = <<>> THEN ""
    ELSE IF FirstInvalidIn(Head(conditions)) # "" THEN FirstInvalidIn(Head(conditions))
    ELSE FirstInvalid(Tail(conditions))

\* C8: when a logical key anywhere in the tree holds an invalid value or an
\* invalid list element, the relational compilation fails and the caller's
\* query is returned untouched (no filter, join or DISTINCT); when no leaf
\* fails on its own, the error is the invalid-attribute error of the first
\* such item.
C8_InvalidLogicalValueFails ==
    (pc = "done" /\ call.op \in FilterOps /\ FirstInvalid(call.conditions) # "") =>
        /\ error.kind # ""
        /\ query = BaseQuery
        /\ relationships = NewRelationships("")
        /\ (\A l \in Leaves(call.conditions) : LeafParses(l))
              => error = HTTPBadRequest(<<FirstInvalid(call.conditions)>>)

\* a valid joined sibling before {"or": 1}: nothing of it reaches the query
C8_ValidSiblingDiscarded ==
    /\ pc = "done" /\ call.op = "filter_by"
    /\ call.conditions =
          <<Item(<<"other_models", "name">>, StrV(1)), Item(<<"or">>, IntV(1))>>
    /\ error = HTTPBadRequest(<<"or">>)
    /\ query = BaseQuery

IsNullTest(key) == Len(key) >= 3 /\ key[Len(key)] \in {"isnull", "isnotnull"}
IsPrefix(a, b) == Len(a) <= Len(b) /\ SubSeq(b, 1, Len(a)) = a

\* C9: in the relational backend, for every isnull / isnotnull leaf on a
\* field reached through relationships, a materialized join sequence covers
\* the leaf's relationship chain, and every sequence covering it is an outer
\* join, whatever else uses the chain.
C9_NullTestJoinsOuter ==
    (pc = "done" /\ call.op \in FilterOps /\ error.kind = "") =>
        \A l \in Leaves(call.conditions) :
            IsNullTest(l.key) =>
                /\ \E j \in 1..Len(query.joins) :
                      IsPrefix(SubSeq(l.key, 1, Len(l.key) - 2), PathOf(query.joins[j].ext))
                /\ \A j \in 1..Len(query.joins) :
                      IsPrefix(SubSeq(l.key, 1, Len(l.key) - 2), PathOf(query.joins[j].ext))
                         => query.joins[j].outer

\* C10 as stated: whenever filter_by / exclude_by applies a join, the query
\* is DISTINCT.
C10_JoinImpliesDistinct ==
    (pc = "done" /\ call.op \in FilterOps /\ error.kind = "") =>
        (query.joins # <<>> => query.distinct)

\* C10: whenever filter_by / exclude_by applies a join and the conditions
\* compiled to a filter expression, the query is DISTINCT.
C10_FilteredJoinImpliesDistinct ==
    (pc = "done" /\ call.op \in FilterOps /\ error.kind = "") =>
        (query.joins # <<>> /\ query.filter # None => query.distinct)

\* a filter and an order over a relationship: joined, filtered, DISTINCT
C10_FilteredJoinedDistinct ==
    /\ pc = "done" /\ call.op = "filter_by" /\ error.kind = ""
    /\ call.order # <<>>
    /\ query.joins # <<>>
    /\ query.filter # None
    /\ query.distinct

\* the expression a criterion resolves to on its own, the sign stripped
Resolved(criterion) ==
    parse_tokens(objects_class, criterion.key, criterion.val, NewRelationships(""), "column").expr

MaxTotals == 3

ColV(tokens) == [k |-> "col", tokens |-> tokens]

AGGR_GROUPBY == "group_by"
AGGR_GROUPLIMIT == "group_limit"

\* `not columns`
NoColumns(columns) == IF columns.k = "col" THEN columns.tokens = <<"">> ELSE ~Truthy(columns)

\* variant: any value is taken for the group limit
is_int_unchecked(columns) == TRUE

\* isinstance(columns, int): bool is a subclass of int
is_int(columns) == columns.k \in {"int", "bool"}

\* columns = [columns] unless it is a list
AsList(columns) == IF columns.k = "list" THEN columns.items ELSE <<columns>>

\* for total in totals: for aggregate, columns in total.items()
RECURSIVE TotalPairs(_, _)
TotalPairs(totals, i) ==
    IF i > Len(totals) THEN <<>> ELSE totals[i] \o TotalPairs(totals, i + 1)

(***************************************************************************)
(* CollectionResource._build_total_expressions of the relational backend.  *)
(***************************************************************************)
primary_keys(cls) == <<ColumnExpr(ColumnOf(ClassAlias(cls), cls, "id"))>>

Function(name, args) == [e |-> "func", name |-> name, args |-> args, label |-> name]
Labelled(column, expr) == [column |-> column, expr |-> expr]

NoAggregate == [agg |-> "none"]
TotalsState(rels) ==
    [rels |-> rels, aggregates |-> <<>>, group_cols |-> <<>>, group_by |-> <<>>,
     group_limit |-> NoneV, err |-> NoError]
TotalsError(ts, err) == [ts EXCEPT !.err = err]

\* group_cols[column] = expression.label(column) on an OrderedDict
SetGroupCol(group_cols, column, expr) ==
    IF \E j \in 1..Len(group_cols) : group_cols[j].column = column
    THEN [j \in 1..Len(group_cols) |->
             IF group_cols[j].column = column THEN Labelled(column, expr) ELSE group_cols[j]]
    ELSE Append(group_cols, Labelled(column, expr))

\* lines 978-985
add_total(ts, aggregate, column, r) ==
    IF r.expr = None THEN [ts EXCEPT !.rels = r.rels]
    ELSE IF aggregate = AGGR_GROUPBY
    THEN [ts EXCEPT !.rels = r.rels,
                    !.group_cols = SetGroupCol(@, column, r.expr),
                    !.group_by = Append(@, r.expr)]
    ELSE [ts EXCEPT !.rels = r.rels,
                    !.aggregates = Append(@, Function(aggregate, <<r.expr>>))]

RECURSIVE total_columns(_, _, _, _)
total_column(ts, aggregate, columns, i, r) ==
    IF r.err.kind # "" THEN TotalsError([ts EXCEPT !.rels = r.rels], r.err)
    ELSE total_columns(add_total(ts, aggregate, columns[i].tokens, r), aggregate, columns, i + 1)

\* lines 975-985; column.split fails on a column that is not a string
total_columns(ts, aggregate, columns, i) ==
    IF i > Len(columns) THEN ts
    ELSE IF columns[i].k # "col" THEN TotalsError(ts, Raise("AttributeError", <<aggregate>>))
    ELSE total_column(ts, aggregate, columns, i,
             parse_tokens(objects_class, columns[i].tokens, NoneV, ts.rels, "column"))

\* lines 962-974
total_entry(ts, aggregate, columns) ==
    IF aggregate = AGGR_GROUPLIMIT
    THEN IF ~is_int(columns) THEN TotalsError(ts, HTTPBadRequest(<<aggregate>>))
         ELSE [ts EXCEPT !.group_limit = columns]
    ELSE IF NoColumns(columns)
    THEN IF aggregate = AGGR_GROUPBY THEN TotalsError(ts, HTTPBadRequest(<<aggregate>>))
         ELSE IF Len(primary_keys(objects_class)) > 1
         THEN [ts EXCEPT !.aggregates =
                  Append(@, Function(aggregate, <<Function("row", primary_keys(objects_class))>>))]
         ELSE [ts EXCEPT !.aggregates = Append(@, Function(aggregate, primary_keys(objects_class)))]
    ELSE total_columns(ts, aggregate, AsList(columns), 1)

RECURSIVE total_entries(_, _, _)
total_entries(ts, pairs, i) ==
    IF i > Len(pairs) \/ ts.err.kind # "" THEN ts
    ELSE total_entries(total_entry(ts, pairs[i].key, pairs[i].val), pairs, i + 1)

\* group_limit as the condition of `if group_limit:`
HasGroupLimit(ts) == Truthy(ts.group_limit)

GroupColsExpr(ts) == [j \in 1..Len(ts.group_cols) |-> ts.group_cols[j].expr]
Desc(exprs) == [j \in 1..Len(exprs) |-> desc(exprs[j])]

\* variant: the window is partitioned by every group column
row_number_over_all(ts) ==
    [e |-> "row_number", partition_by |-> GroupColsExpr(ts),
     order_by |-> Desc(ts.aggregates), label |-> "row_number"]

\* lines 989-992: row_number() over the group columns but the last
row_number(ts) ==
    [e |-> "row_number",
     partition_by |-> SubSeq(GroupColsExpr(ts), 1, Len(ts.group_cols) - 1),
     order_by |-> Desc(ts.aggregates), label |-> "row_number"]

\* lines 993-995: positions of the group columns, then of the metrics, descending
totals_order(ts) ==
    [j \in 1..(Len(ts.group_cols) + Len(ts.aggregates)) |->
        [position |-> j, descending |-> j > Len(ts.group_cols)]]

\* lines 986-1002
aggregate_query(queryset, ts) ==
    [agg |-> "select",
     from |-> [apply_joins(queryset, ts.rels, FALSE) EXCEPT !.order = <<>>],
     columns |-> GroupColsExpr(ts) \o ts.aggregates
                 \o (IF HasGroupLimit(ts) THEN <<row_number(ts)>> ELSE <<>>),
     order_by |-> totals_order(ts),
     group_by |-> ts.group_by,
     row_number_limit |-> IF HasGroupLimit(ts) THEN ts.group_limit ELSE NoneV,
     dimensions |-> [j \in 1..Len(ts.group_cols) |-> ts.group_cols[j].column]]

totals_result(queryset, ts) ==
    IF ts.err.kind # "" THEN [query |-> NoAggregate, rels |-> ts.rels, err |-> ts.err]
    ELSE [query |-> aggregate_query(queryset, ts), rels |-> ts.rels, err |-> NoError]

build_total_expressions(queryset, totals) ==
    totals_result(queryset,
        total_entries(TotalsState(NewRelationships("totals_")), TotalPairs(totals, 1), 1))

(***************************************************************************)
(* CollectionResource._build_total_expressions of the document backend.    *)
(* aggregates, nested_groups and nested_aggs are insertion-ordered dicts:  *)
(* sequences in which a key stands once.                                   *)
(***************************************************************************)
EsAgg(name, body) == [name |-> name, body |-> body, order |-> <<>>, aggs |-> <<>>]
EsField(expr) == [e |-> "column", field |-> expr]
EsNestedGroup(path) == EsAgg(<<"nested">>, [t |-> "nested", path |-> path])
EsFilteredGroup(expr) == EsAgg(<<"filtered">>, [t |-> "filter", filter |-> expr])
EsTermsGroup(column, expr, size) ==
    EsAgg(column, [t |-> "terms", field |-> expr, size |-> size])
EsMetric(aggregate, expr) == EsAgg(<<aggregate>>, [t |-> "metric", fn |-> aggregate, field |-> expr])

AggNames(aggregates) == [j \in 1..Len(aggregates) |-> aggregates[j].name]

\* aggregates[name] = agg
SetAgg(aggregates, agg) ==
    IF \E j \in 1..Len(aggregates) : aggregates[j].name = agg.name
    THEN [j \in 1..Len(aggregates) |-> IF aggregates[j].name = agg.name THEN agg ELSE aggregates[j]]
    ELSE Append(aggregates, agg)

\* lines 394-398: one group around the aggregates
nest_one(group, aggregates) ==
    IF aggregates = <<>> THEN group
    ELSE [group EXCEPT !.order = IF group.body.t = "terms" THEN AggNames(aggregates) ELSE @,
                       !.aggs = aggregates]

\* lines 392-399: group_by[::-1], the innermost group first
RECURSIVE nest_aggregates(_, _, _)
nest_aggregates(aggregates, group_by, n) ==
    IF n = 0 THEN aggregates
    ELSE nest_aggregates(<<nest_one(group_by[n], aggregates)>>, group_by, n - 1)

EsTotalsState ==
    [aggregates |-> <<>>, nested_groups |-> <<>>, nested_aggs |-> <<>>, group_by |-> <<>>,
     group_limit |-> IntV(0), err |-> NoError]

\* lines 407-415: the search for group_limit
RECURSIVE es_group_limit(_, _, _)
es_group_limit(ts, pairs, i) ==
    IF i > Len(pairs) THEN ts
    ELSE IF pairs[i].key # AGGR_GROUPLIMIT THEN es_group_limit(ts, pairs, i + 1)
    ELSE IF ~is_int(pairs[i].val) THEN TotalsError(ts, HTTPBadRequest(<<pairs[i].key>>))
    ELSE es_group_limit([ts EXCEPT !.group_limit = pairs[i].val], pairs, i + 1)

\* lines 425-430: a mapping is a filter, a string is a column path
es_total_expression(aggregate, column) ==
    IF column.k = "dict" THEN es_build_filter_expressions(column.pairs, "must", FALSE)
    ELSE IF column.k # "col" THEN ExprErr(Raise("AttributeError", <<aggregate>>))
    ELSE es_parse_tokens(objects_class, column.tokens, NoneV, "column", TRUE, TRUE)

IsNestedOnly(expression) == expression.e = "nested"

\* lines 434-437
es_open_nested_group(ts, path) ==
    IF path \in Range(ts.nested_groups) THEN ts
    ELSE [ts EXCEPT !.nested_groups = Append(@, path),
                    !.group_by = Append(@, EsNestedGroup(path))]

\* lines 439-443
es_append_group(ts, column, expression) ==
    IF column.k = "dict"
    THEN [ts EXCEPT !.group_by = Append(@, EsFilteredGroup(expression))]
    ELSE [ts EXCEPT !.group_by = Append(@, EsTermsGroup(column.tokens, expression, ts.group_limit))]

\* lines 431-443
es_add_group(ts, column, r) ==
    IF r.err.kind # "" THEN TotalsError(ts, r.err)
    ELSE IF r.expr = None THEN ts
    ELSE IF IsNestedOnly(r.expr)
    THEN es_append_group(es_open_nested_group(ts, r.expr.path), column, r.expr.query)
    ELSE es_append_group(ts, column, r.expr)

RECURSIVE es_group_columns(_, _, _)
es_group_columns(ts, columns, i) ==
    IF i > Len(columns) \/ ts.err.kind # "" THEN ts
    ELSE es_group_columns(es_add_group(ts, columns[i],
                                       es_total_expression(AGGR_GROUPBY, columns[i])),
                          columns, i + 1)

\* lines 416-444: the groups
RECURSIVE es_groups(_, _, _)
es_groups(ts, pairs, i) ==
    IF i > Len(pairs) \/ ts.err.kind # "" THEN ts
    ELSE IF pairs[i].key # AGGR_GROUPBY THEN es_groups(ts, pairs, i + 1)
    ELSE IF NoColumns(pairs[i].val) THEN TotalsError(ts, HTTPBadRequest(<<pairs[i].key>>))
    ELSE es_groups(es_group_columns(ts, AsList(pairs[i].val), 1), pairs, i + 1)

\* lines 469-471
es_close_nested(ts) ==
    IF ts.nested_aggs = <<>> THEN ts
    ELSE [ts EXCEPT !.aggregates = nest_aggregates(@, ts.nested_aggs, Len(ts.nested_aggs)),
                    !.nested_aggs = <<>>]

\* lines 464-468
es_set_metric(ts, aggregate, expression) ==
    IF IsNestedOnly(expression)
    THEN [ts EXCEPT !.nested_aggs = IF expression.path \in Range(ts.nested_groups) THEN @
                                    ELSE <<EsNestedGroup(expression.path)>>,
                    !.aggregates = SetAgg(@, EsMetric(aggregate, expression.query))]
    ELSE [ts EXCEPT !.aggregates = SetAgg(@, EsMetric(aggregate, expression))]

\* lines 462-471
es_add_metric(ts, aggregate, r) ==
    IF r.err.kind # "" THEN TotalsError(ts, r.err)
    ELSE IF r.expr = None THEN ts
    ELSE es_close_nested(es_set_metric(ts, aggregate, r.expr))

RECURSIVE es_metric_columns(_, _, _, _)
es_metric_columns(ts, aggregate, columns, i) ==
    IF i > Len(columns) \/ ts.err.kind # "" THEN ts
    ELSE es_metric_columns(es_add_metric(ts, aggregate, es_total_expression(aggregate, columns[i])),
                           aggregate, columns, i + 1)

\* lines 445-471: the plain aggregates
RECURSIVE es_metrics(_, _, _)
es_metrics(ts, pairs, i) ==
    IF i > Len(pairs) \/ ts.err.kind # "" THEN ts
    ELSE IF pairs[i].key \in {"count", AGGR_GROUPLIMIT, AGGR_GROUPBY} THEN es_metrics(ts, pairs, i + 1)
    ELSE IF NoColumns(pairs[i].val)
    THEN es_metrics([ts EXCEPT !.aggregates =
                        SetAgg(@, EsMetric(pairs[i].key, EsField(EsColumn(<<>>, <<"id">>, FALSE))))],
                    pairs, i + 1)
    ELSE es_metrics(es_metric_columns(ts, pairs[i].key, AsList(pairs[i].val), 1), pairs, i + 1)

es_groups_then_metrics(ts, pairs) ==
    IF ts.err.kind # "" THEN ts ELSE es_metrics(es_groups(ts, pairs, 1), pairs, 1)

\* lines 472-475: the search with its 'aggs', or the search as it was
es_totals_result(search, ts) ==
    IF ts.err.kind # "" THEN [query |-> NoAggregate, rels |-> NewRelationships(""), err |-> ts.err]
    ELSE [query |-> [agg |-> "aggs", from |-> search,
                     aggs |-> nest_aggregates(ts.aggregates, ts.group_by, Len(ts.group_by))],
          rels |-> NewRelationships(""), err |-> NoError]

es_build_total_expressions(search, totals) ==
    es_totals_result(search,
        es_groups_then_metrics(es_group_limit(EsTotalsState, TotalPairs(totals, 1), 1),
                               TotalPairs(totals, 1)))

(***************************************************************************)
(* Totals lists handed to the two builders: plain aggregates, groups and   *)
(* group limits, well formed and not, in every order.                      *)
(***************************************************************************)
Total(aggregate, columns) == <<Item(aggregate, columns)>>

TotalEntries ==
    { Total("count", NoneV),
      Total("sum", ColV(<<"id">>)),
      Total("max", ListV(<<ColV(<<"other_models", "id">>)>>)),
      Total("min", ColV(<<"nope">>)),
      Total("avg", IntV(5)),
      Total(AGGR_GROUPBY, ColV(<<"name">>)),
      Total(AGGR_GROUPBY, ListV(<<ColV(<<"name">>), ColV(<<"other_models", "name">>)>>)),
      Total(AGGR_GROUPBY, NoneV),
      Total(AGGR_GROUPBY, ListV(<<>>)),
      Total(AGGR_GROUPBY, ColV(<<"">>)),
      Total(AGGR_GROUPLIMIT, IntV(1)),
      Total(AGGR_GROUPLIMIT, IntV(0)),
      Total(AGGR_GROUPLIMIT, BoolV(TRUE)),
      Total(AGGR_GROUPLIMIT, StrV(1)),
      Total(AGGR_GROUPLIMIT, NoneV),
      Total(AGGR_GROUPLIMIT, ListV(<<IntV(1)>>)),
      <<Item("count", NoneV), Item(AGGR_GROUPBY, ColV(<<"name">>))>> }

TotalsLists == UNION {[1..n -> TotalEntries] : n \in 0..MaxTotals}

TotalsCall(op, totals) == [op |-> op, totals |-> totals]

BuildTotalExpressions ==
    /\ pc = "idle"
    /\ \E totals \in TotalsLists :
          Completes(TotalsCall("build_total_expressions", totals),
                    build_total_expressions(BaseQuery, totals))

EsBuildTotalExpressions ==
    /\ pc = "idle"
    /\ \E totals \in TotalsLists :
          Completes(TotalsCall("es_build_total_expressions", totals),
                    es_build_total_expressions(BaseSearch, totals))

(***************************************************************************)
(* C12                                                                     *)
(***************************************************************************)
TotalsOps == {"build_total_expressions", "es_build_total_expressions"}

\* a group_by entry with no columns, or a group_limit entry whose value is
\* not an integer (a JSON boolean counts as an integer, as it does for
\* Python's isinstance)
BadEntry(pair) ==
    \/ pair.key = AGGR_GROUPBY
       /\ pair.val \in {NoneV, ListV(<<>>), ColV(<<"">>)}
    \/ pair.key = AGGR_GROUPLIMIT /\ pair.val.k \notin {"int", "bool"}

\* every column of the entry is named by a string, as the totals grammar has it
NamedByStrings(pair) ==
    \/ pair.key = AGGR_GROUPLIMIT
    \/ pair.val.k \in {"none", "col"}
    \/ pair.val.k = "list" /\ \A j \in 1..Len(pair.val.items) : pair.val.items[j].k = "col"

EntriesOf(totals) == Range(TotalPairs(totals, 1))

JsonV(v) == [k |-> "json", v |-> v]
NameV(s) == [k |-> "name", s |-> s]

PARAM_LIMIT == "limit"
PARAM_OFFSET == "offset"
PARAM_ORDER == "order"
PARAM_TOTAL_COUNT == "total_count"
PARAM_TOTALS == "totals"
PARAM_SEARCH == "search"
PARAM_RELATIONS == "relations"

Request(params, context) == [params |-> params, context |-> context]
NoContext == [n \in {} |-> NoneV]
WithDoc(doc) == [n \in {"doc"} |-> doc]

\* dict.pop(name) / del dict[name]
Without(dict, name) == [n \in (DOMAIN dict) \ {name} |-> dict[n]]
\* dict[name] = value
With(dict, name, value) ==
    [n \in (DOMAIN dict) \cup {name} |-> IF n = name THEN value ELSE dict[n]]

Got(value, req, from) == [value |-> value, req |-> req, from |-> from]

\* BaseResource.get_param_or_post
get_param_or_post(req, name, default, pop_params) ==
    IF name \in DOMAIN req.params
    THEN Got(req.params[name],
             IF pop_params THEN [req EXCEPT !.params = Without(@, name)] ELSE req, "params")
    ELSE IF "doc" \in DOMAIN req.context
    THEN IF name \in DOMAIN req.context.doc THEN Got(req.context.doc[name], req, "doc")
         ELSE Got(default, req, "default")
    ELSE Got(default, req, "default")

(***************************************************************************)
(* BaseCollectionResource.get_param_totals.                                *)
(***************************************************************************)
\* the characters of a string, as iterating over it yields them
Chars(s) ==
    CASE s = "count" -> <<"c", "o", "u", "n", "t">>
      [] s = "sum" -> <<"s", "u", "m">>
      [] OTHER -> <<s>>

Normalized(value, req) == [value |-> value, req |-> req, err |-> NoError]
NormalizeError(err, req) == [value |-> NoneV, req |-> req, err |-> err]

\* a list or a dict cannot be the key of a dict
Hashable(x) == x.k \notin {"list", "dict"}

\* the key that x makes: the string itself, or the value written out
KeyOf(x) == IF x.k = "name" THEN x.s ELSE ToString(x)

\* lambda x: x if isinstance(x, dict) else {x: None}
as_total(x) == IF x.k = "dict" THEN x ELSE DictV(<<Item(KeyOf(x), NoneV)>>)

\* line 208, the map over whatever totals is
map_totals(totals, req) ==
    IF totals.k = "list"
    THEN IF \E j \in 1..Len(totals.items) :
                totals.items[j].k # "dict" /\ ~Hashable(totals.items[j])
         THEN NormalizeError(Raise("TypeError", <<PARAM_TOTALS>>), req)
         ELSE Normalized(ListV([j \in 1..Len(totals.items) |-> as_total(totals.items[j])]), req)
    ELSE IF totals.k = "name"
    THEN Normalized(ListV([j \in 1..Len(Chars(totals.s)) |->
                              DictV(<<Item(Chars(totals.s)[j], NoneV)>>)]), req)
    ELSE NormalizeError(Raise("TypeError", <<PARAM_TOTALS>>), req)

\* lines 205-208, totals decoded
wrap_totals(totals, req) ==
    IF totals.k = "dict" THEN Normalized(ListV(<<totals>>), req) ELSE map_totals(totals, req)

\* lines 202-208
normalize_totals(totals, req) ==
    IF ~Truthy(totals) THEN Normalized(totals, req)
    ELSE IF totals.k = "name" THEN NormalizeError(Raise("ValueError", <<PARAM_TOTALS>>), req)
    ELSE IF totals.k = "json" THEN wrap_totals(totals.v, req)
    ELSE wrap_totals(totals, req)

\* variant: the count entry is appended whenever total_count is requested
has_count_never(x) == FALSE

\* 'count' in x
has_count(x) == \E j \in 1..Len(x.pairs) : x.pairs[j].key = "count"

\* list(filter(lambda x: 'count' in x, totals)) is empty
no_count_in(totals) == \A j \in 1..Len(totals.items) : ~has_count(totals.items[j])

\* totals.append({'count': None}); the empty list that came from the body
\* is the body's own list
append_count(n, from) ==
    IF from = "doc" /\ n.value = ListV(<<>>)
    THEN Normalized(ListV(<<DictV(<<Item("count", NoneV)>>)>>),
             [n.req EXCEPT !.context = WithDoc(With(n.req.context.doc, PARAM_TOTALS,
                                                   ListV(<<DictV(<<Item("count", NoneV)>>)>>)))])
    ELSE Normalized(ListV(Append(n.value.items, DictV(<<Item("count", NoneV)>>))), n.req)

\* lines 210-212, total_count being truthy
add_count(n, from) ==
    IF n.value.k \in {"none", "int", "bool"} THEN NormalizeError(Raise("TypeError", <<PARAM_TOTALS>>), n.req)
    ELSE IF n.value.k # "list" THEN NormalizeError(Raise("AttributeError", <<PARAM_TOTALS>>), n.req)
    ELSE IF no_count_in(n.value) THEN append_count(n, from)
    ELSE n

\* lines 209-213
with_total_count(n, from, total_count) ==
    IF n.err.kind # "" THEN n
    ELSE IF Truthy(total_count.value) THEN add_count([n EXCEPT !.req = total_count.req], from)
    ELSE [n EXCEPT !.req = total_count.req]

totals_then_count(got) ==
    with_total_count(normalize_totals(got.value, got.req), got.from,
                     get_param_or_post(got.req, PARAM_TOTAL_COUNT, NoneV, TRUE))

get_param_totals(req) == totals_then_count(get_param_or_post(req, PARAM_TOTALS, ListV(<<>>), TRUE))

(***************************************************************************)
(* Requests that carry totals and total_count in the query string, in the  *)
(* body, in both or in neither.                                            *)
(***************************************************************************)
Absent == [k |-> "absent"]

\* the mapping of the names whose value is not Absent
Mapping(values) == [n \in {x \in DOMAIN values : values[x] # Absent} |-> values[n]]

CountTotal == DictV(<<Item("count", NoneV)>>)

TotalsEntries ==
    { NameV("count"), NameV("sum"), CountTotal,
      DictV(<<Item("sum", ColV(<<"id">>))>>),
      DictV(<<Item(AGGR_GROUPBY, ColV(<<"name">>)), Item("count", NoneV)>>),
      ListV(<<>>) }

EntryLists == UNION {[1..n -> TotalsEntries] : n \in 0..MaxList}

\* what the query string can hold: JSON text, plain text, a repeated parameter
TotalsInParams ==
    {JsonV(ListV(l)) : l \in EntryLists}
        \cup {JsonV(e) : e \in TotalsEntries \cup {NoneV, IntV(1), DictV(<<>>)}}
        \cup {NameV("count"), ListV(<<NameV("count"), NameV("sum")>>)}

\* what the decoded body can hold
TotalsInDoc ==
    {ListV(l) : l \in EntryLists}
        \cup {e \in TotalsEntries : e.k = "dict"}
        \cup {NoneV, DictV(<<>>), IntV(0), JsonV(ListV(<<NameV("count")>>))}

TotalCountInParams == {StrV(1), StrV(0)}
TotalCountInDoc == {BoolV(TRUE), BoolV(FALSE), IntV(1), NoneV}

TotalsFields(totals, total_count) ==
    Mapping([n \in {PARAM_TOTALS, PARAM_TOTAL_COUNT} |->
                IF n = PARAM_TOTALS THEN totals ELSE total_count])

TotalsRequests ==
    {Request(TotalsFields(t, c), NoContext) :
        t \in TotalsInParams \cup {Absent}, c \in TotalCountInParams \cup {Absent}}
    \cup {Request(TotalsFields(Absent, c), WithDoc(TotalsFields(t, d))) :
            t \in TotalsInDoc \cup {Absent}, c \in {StrV(1), Absent},
            d \in TotalCountInDoc \cup {Absent}}
    \cup {Request(TotalsFields(t, Absent), WithDoc(TotalsFields(ListV(<<CountTotal>>), d))) :
            t \in {JsonV(ListV(<<NameV("sum")>>)), JsonV(ListV(<<>>))},
            d \in {BoolV(TRUE), Absent}}

RequestCall(op, req) == [op |-> op, req |-> req]
Answer(n) == [query |-> [value |-> n.value, req |-> n.req],
              rels |-> NewRelationships(""), err |-> n.err]

GetParamTotals ==
    /\ pc = "idle"
    /\ \E req \in TotalsRequests :
          Completes(RequestCall("get_param_totals", req), Answer(get_param_totals(req)))

(***************************************************************************)
(* C13                                                                     *)
(***************************************************************************)
\* the totals a request asks for, as a list of mappings
RequestedTotals(req) ==
    normalize_totals(get_param_or_post(req, PARAM_TOTALS, ListV(<<>>), FALSE).value, req).value

\* the request asks for total_count
TotalCountRequested(req) ==
    \/ PARAM_TOTAL_COUNT \in DOMAIN req.params
    \/ /\ "doc" \in DOMAIN req.context
       /\ PARAM_TOTAL_COUNT \in DOMAIN req.context.doc
       /\ req.context.doc[PARAM_TOTAL_COUNT] \in {BoolV(TRUE), IntV(1)}

CountEntries(totals) ==
    {j \in 1..Len(totals.items) :
        \E i \in 1..Len(totals.items[j].pairs) : totals.items[j].pairs[i].key = "count"}

Metric(x) == [t |-> "value", value |-> x]
Buckets(buckets) == [t |-> "buckets", buckets |-> buckets]
Wrapper(doc_count, subs) == [t |-> "doc_count", doc_count |-> doc_count, subs |-> subs]
Sub(name, value) == [name |-> name, value |-> value]
Bucket(key, key_as_string, doc_count, subs) ==
    [key |-> key, key_as_string |-> key_as_string, doc_count |-> doc_count, subs |-> subs]

WrapperKeys == {"nested", "filtered"}

\* str(x) of a bucket key
str(x) == IF x.k = "int" THEN StrV(x.n) ELSE x

MapV(entries) == [k |-> "map", entries |-> entries]
RawV(value) == [k |-> "raw", value |-> value]
Entry(key, val) == [key |-> key, val |-> val]

Flat(key, value) == [key |-> key, value |-> value, err |-> NoError]
FlatError(err) == [key |-> "", value |-> NoneV, err |-> err]

\* values[key] = val
SetValue(values, key, val) ==
    IF \E j \in 1..Len(values) : values[j].key = key
    THEN [j \in 1..Len(values) |-> IF values[j].key = key THEN Entry(key, val) ELSE values[j]]
    ELSE Append(values, Entry(key, val))

HasSub(bucket, name) == \E j \in 1..Len(bucket.subs) : bucket.subs[j].name = name
SubOf(bucket, name) ==
    bucket.subs[CHOOSE j \in 1..Len(bucket.subs) : bucket.subs[j].name = name].value

\* lines 357-362: the first key of the bucket that is no key, key_as_string, doc_count
values_key_of(values_key, bucket) ==
    IF values_key # "" THEN values_key
    ELSE IF bucket.subs # <<>> THEN bucket.subs[1].name
    ELSE ""

\* lines 363-364
result_key_of(result_key, bucket) ==
    IF result_key # "" THEN result_key
    ELSE IF bucket.key_as_string # Absent THEN "key_as_string" ELSE "key"

BucketState == [values_key |-> "", result_key |-> "", agg_name |-> "", values |-> <<>>,
                err |-> NoError]

RECURSIVE flatten_aggregate(_, _)
RECURSIVE flatten_buckets(_, _, _)
RECURSIVE flatten_subs(_, _, _, _)

\* line 373: agg_name, values[...] = cls.flatten_aggregate(subkey, subvalue)
assign_sub(st, key, f) ==
    IF f.err.kind # "" THEN [st EXCEPT !.err = f.err]
    ELSE [st EXCEPT !.agg_name = f.key, !.values = SetValue(@, key, f.value)]

\* lines 370-373: the sub-aggregates of the wrapper, doc_count skipped
flatten_subs(st, key, subs, j) ==
    IF j > Len(subs) \/ st.err.kind # "" THEN st
    ELSE flatten_subs(assign_sub(st, key, flatten_aggregate(subs[j].name, subs[j].value)),
                      key, subs, j + 1)

\* lines 365-373: the bucket holds a nested or filtered wrapper
flatten_wrapped(st, key, wrapper) ==
    IF wrapper.t = "value" THEN [st EXCEPT !.err = Raise("TypeError", <<st.values_key>>)]
    ELSE IF wrapper.t = "buckets"
    THEN assign_sub(st, key, Flat("buckets", RawV(wrapper)))
    ELSE IF wrapper.subs = <<>>
    THEN [st EXCEPT !.agg_name = "count", !.values = SetValue(@, key, wrapper.doc_count)]
    ELSE flatten_subs(st, key, wrapper.subs, 1)

\* lines 375-376: bucket['doc_count'] or bucket[values_key]['value']
flatten_plain(st, key, bucket) ==
    IF st.values_key = ""
    THEN [st EXCEPT !.values = SetValue(@, key, bucket.doc_count)]
    ELSE IF ~HasSub(bucket, st.values_key)
    THEN [st EXCEPT !.err = Raise("KeyError", <<st.values_key>>)]
    ELSE IF SubOf(bucket, st.values_key).t # "value"
    THEN [st EXCEPT !.err = Raise("KeyError", <<"value">>)]
    ELSE [st EXCEPT !.values = SetValue(@, key, SubOf(bucket, st.values_key).value)]

\* lines 365-376, values_key and result_key being set
flatten_bucket(st, bucket) ==
    IF st.result_key = "key_as_string" /\ bucket.key_as_string = Absent
    THEN [st EXCEPT !.err = Raise("KeyError", <<"key_as_string">>)]
    ELSE IF st.values_key \in WrapperKeys
    THEN IF ~HasSub(bucket, st.values_key)
         THEN [st EXCEPT !.err = Raise("KeyError", <<st.values_key>>)]
         ELSE flatten_wrapped(st,
                  str(IF st.result_key = "key" THEN bucket.key ELSE bucket.key_as_string),
                  SubOf(bucket, st.values_key))
    ELSE flatten_plain(st,
             str(IF st.result_key = "key" THEN bucket.key ELSE bucket.key_as_string), bucket)

\* lines 357-364
keyed(st, bucket) ==
    [st EXCEPT !.values_key = values_key_of(st.values_key, bucket),
               !.agg_name = IF st.values_key = "" /\ bucket.subs # <<>>
                            THEN bucket.subs[1].name ELSE @,
               !.result_key = result_key_of(st.result_key, bucket)]

\* lines 356-376
flatten_buckets(st, buckets, i) ==
    IF i > Len(buckets) \/ st.err.kind # "" THEN st
    ELSE flatten_buckets(flatten_bucket(keyed(st, buckets[i]), buckets[i]), buckets, i + 1)

\* line 377
flattened(st) ==
    IF st.err.kind # "" THEN FlatError(st.err)
    ELSE Flat(IF st.agg_name # "" THEN st.agg_name ELSE "count", MapV(st.values))

\* lines 344-351: the value holds no 'buckets'
flatten_single(key, value) ==
    IF key \in WrapperKeys
    THEN IF value.t = "value" THEN FlatError(Raise("TypeError", <<key>>))
         ELSE IF value.subs = <<>> THEN FlatError(Raise("Exception", <<key>>))
         ELSE flatten_aggregate(value.subs[1].name, value.subs[1].value)
    ELSE Flat(key, IF value.t = "value" THEN value.value ELSE RawV(value))

flatten_aggregate(key, value) ==
    IF value.t # "buckets" THEN flatten_single(key, value)
    ELSE flattened(flatten_buckets(BucketState, value.buckets, 1))

(***************************************************************************)
(* Aggregation results: metrics, groups of one or two buckets whose        *)
(* sub-aggregate is a metric, a wrapper or another group, and wrappers.    *)
(***************************************************************************)
Metrics == {Metric(IntV(3)), Metric(IntV(4))}

\* what a bucket of an innermost group can hold
InnerSubs ==
    {<<>>} \cup {<<Sub("avg", m)>> : m \in Metrics}
           \cup {<<Sub(w, Wrapper(IntV(5), <<>>))>> : w \in WrapperKeys}
           \cup {<<Sub(w, Wrapper(IntV(5), <<Sub("avg", Metric(IntV(3)))>>))>> : w \in WrapperKeys}

KeyAsString(key, dated) == IF dated THEN StrV(key + 10) ELSE Absent

\* groups of one bucket, or of two buckets of the same make
Groups(subs, dated) ==
    {Buckets(<<Bucket(IntV(1), KeyAsString(1, dated), IntV(7), s)>>) : s \in subs}
        \cup {Buckets(<<Bucket(IntV(1), KeyAsString(1, dated), IntV(7), s),
                        Bucket(IntV(2), KeyAsString(2, dated), IntV(8), s)>>) : s \in subs}

InnerGroups == Groups(InnerSubs, FALSE) \cup Groups(InnerSubs, TRUE) \cup {Buckets(<<>>)}

\* a group inside a bucket of another group: directly, or inside a wrapper
OuterSubs ==
    {<<Sub("other_models__name", g)>> : g \in InnerGroups}
        \cup {<<Sub(w, Wrapper(IntV(5), <<Sub("other_models__name", g)>>))>> :
                 w \in WrapperKeys, g \in InnerGroups}

OuterGroups == Groups(OuterSubs, FALSE)

Wrapped ==
    {Wrapper(IntV(5), <<Sub("avg", m)>>) : m \in Metrics}
        \cup {Wrapper(IntV(5), <<Sub("name", g)>>) : g \in InnerGroups}
        \cup {Wrapper(IntV(5), <<Sub("filtered", Wrapper(IntV(5), <<Sub("avg", Metric(IntV(3)))>>))>>),
              Wrapper(IntV(5), <<>>)}

\* (key, value) as get_total_objects takes them from the response
Aggregations ==
    ({"name", "avg"} \X (Metrics \cup InnerGroups \cup OuterGroups))
        \cup (WrapperKeys \X (Wrapped \cup Metrics))
        \cup ({"name"} \X Wrapped)

FlattenCall(key, value) == [op |-> "flatten_aggregate", key |-> key, value |-> value]
Flattened(f) == [query |-> [key |-> f.key, value |-> f.value],
                 rels |-> NewRelationships(""), err |-> f.err]

FlattenAggregate ==
    /\ pc = "idle"
    /\ \E a \in Aggregations :
          Completes(FlattenCall(a[1], a[2]), Flattened(flatten_aggregate(a[1], a[2])))

(***************************************************************************)
(* C14                                                                     *)
(***************************************************************************)
\* the aggregation result is made of metrics, groups and wrappers, each
\* wrapper under a wrapper key and nothing else under one, and a wrapper
\* that is no bucket's sub-aggregate holds a sub-aggregate
RECURSIVE Composed(_, _, _)
Composed(key, value, in_bucket) ==
    CASE value.t = "value" -> key \notin WrapperKeys
      [] value.t = "doc_count" ->
            /\ key \in WrapperKeys
            /\ Len(value.subs) <= 1
            /\ (value.subs = <<>> => in_bucket)
            /\ \A j \in 1..Len(value.subs) :
                  Composed(value.subs[j].name, value.subs[j].value, FALSE)
      [] OTHER ->
            /\ key \notin WrapperKeys
            /\ \A i \in 1..Len(value.buckets) :
                  /\ Len(value.buckets[i].subs) <= 1
                  /\ \A j \in 1..Len(value.buckets[i].subs) :
                        Composed(value.buckets[i].subs[j].name,
                                 value.buckets[i].subs[j].value, TRUE)

BucketKey(bucket) == IF bucket.key_as_string # Absent THEN bucket.key_as_string ELSE str(bucket.key)

\* a scalar, or a map from each bucket's key to a scalar or to such a map
RECURSIVE ScalarOrMap(_, _)
ScalarOrMap(result, depth) ==
    \/ result.k = "int"
    \/ /\ result.k = "map"
       /\ depth > 0
       /\ \A j \in 1..Len(result.entries) : ScalarOrMap(result.entries[j].val, depth - 1)

\* the group whose buckets give the keys of the flattened map
RECURSIVE GroupOf(_)
GroupOf(value) ==
    IF value.t = "doc_count" /\ value.subs # <<>> THEN GroupOf(value.subs[1].value) ELSE value

\* C14: for every aggregation result made of metrics, groups and wrappers
\* (a group directly inside a bucket of another group included)
\* flatten_aggregate returns a key that is no wrapper key and a value that
\* is the scalar or a map from each bucket's key (key_as_string when
\* present) to the bucket's scalar or nested map
C14_FlattenedShape ==
    (/\ pc = "done" /\ call.op = "flatten_aggregate"
     /\ Composed(call.key, call.value, FALSE)) =>
        /\ error.kind = ""
        /\ query.key \notin WrapperKeys
        /\ ScalarOrMap(query.value, 2)
        /\ GroupOf(call.value).t = "buckets" =>
              /\ query.value.k = "map"
              /\ {query.value.entries[j].key : j \in 1..Len(query.value.entries)}
                    = {BucketKey(GroupOf(call.value).buckets[i]) :
                          i \in 1..Len(GroupOf(call.value).buckets)}

(***************************************************************************)
(* get_object_list.  The base resource slices the queryset; the relational *)
(* resource sets LIMIT and OFFSET on the query, which the database applies *)
(* to the rows.  A limit or offset is IntV(n) or NoneV.                    *)
(***************************************************************************)
MaxRows == 4

Min(a, b) == IF a <= b THEN a ELSE b
Max(a, b) == IF a >= b THEN a ELSE b

\* seq[start:stop] for start, stop >= 0
Slice(seq, start, stop) == SubSeq(seq, start + 1, Min(stop, Len(seq)))

\* seq[start:]
SliceFrom(seq, start) == SubSeq(seq, start + 1, Len(seq))

\* base.py lines 262-263
default_limit(limit, max_limit) == IF limit = NoneV THEN max_limit ELSE limit

\* variant: the limit is not capped by max_limit
capped_limit_uncapped(limit, max_limit) == Max(limit.n, 0)

\* base.py lines 266-268, limit not None
capped_limit(limit, max_limit) ==
    Max(IF max_limit # NoneV THEN Min(limit.n, max_limit.n) ELSE limit.n, 0)

\* base.py line 264
base_offset(offset) == IF offset = NoneV THEN 0 ELSE Max(offset.n, 0)

\* base.py lines 265-270
sliced(queryset, limit, offset, max_limit) ==
    IF limit # NoneV
    THEN Slice(queryset, offset, capped_limit(limit, max_limit) + offset)
    ELSE SliceFrom(queryset, offset)

\* BaseCollectionResource.get_object_list
get_object_list(queryset, limit, offset, max_limit) ==
    sliced(queryset, default_limit(limit, max_limit), base_offset(offset), max_limit)

\* sqlalchemy.py lines 1010-1012, limit not None
sql_capped_limit(limit, max_limit) ==
    Max(IF max_limit # NoneV THEN Min(limit.n, max_limit.n) ELSE limit.n, 0)

\* sqlalchemy.py lines 1009-1015: queryset.limit(limit), queryset.offset(offset)
limited(limit, offset, max_limit) ==
    [limit |-> IF limit # NoneV THEN IntV(sql_capped_limit(limit, max_limit)) ELSE NoneV,
     offset |-> Max(offset.n, 0)]

\* CollectionResource.get_object_list of the relational backend
sql_get_object_list(limit, offset, max_limit) ==
    limited(IF limit = NoneV THEN max_limit ELSE limit,
            IF offset = NoneV THEN IntV(0) ELSE offset, max_limit)

\* the rows that a query with LIMIT and OFFSET returns
Fetch(rows, q) ==
    IF q.limit = NoneV THEN SliceFrom(rows, q.offset)
    ELSE Slice(rows, q.offset, q.offset + q.limit.n)

Rows == {[i \in 1..n |-> i] : n \in 0..MaxRows}
Limits == {NoneV} \cup {IntV(n) : n \in -2..(MaxRows + 1)}
Offsets == {NoneV} \cup {IntV(n) : n \in -2..(MaxRows + 1)}
MaxLimits == {NoneV} \cup {IntV(n) : n \in 0..(MaxRows - 1)}

ListCall(op, rows, limit, offset, max_limit) ==
    [op |-> op, rows |-> rows, limit |-> limit, offset |-> offset, max_limit |-> max_limit]
Listed(objects) == [query |-> [objects |-> objects], rels |-> NewRelationships(""), err |-> NoError]

GetObjectList ==
    /\ pc = "idle"
    /\ \E rows \in Rows, limit \in Limits, offset \in Offsets, max_limit \in MaxLimits :
          Completes(ListCall("get_object_list", rows, limit, offset, max_limit),
                    Listed(get_object_list(rows, limit, offset, max_limit)))

SqlGetObjectList ==
    /\ pc = "idle"
    /\ \E rows \in Rows, limit \in Limits, offset \in Offsets, max_limit \in MaxLimits :
          Completes(ListCall("sql_get_object_list", rows, limit, offset, max_limit),
                    Listed(Fetch(rows, sql_get_object_list(limit, offset, max_limit))))

(***************************************************************************)
(* C15                                                                     *)
(***************************************************************************)
ListOps == {"get_object_list", "sql_get_object_list"}

\* the first object of the slice, counted from 0
FirstIndex(offset) == IF offset = NoneV THEN 0 ELSE IF offset.n > 0 THEN offset.n ELSE 0

\* max(min(L, max_limit), 0), L the requested limit or max_limit
SliceLength(limit, max_limit) ==
    IF (IF limit = NoneV THEN max_limit.n ELSE limit.n) <= max_limit.n
    THEN (IF (IF limit = NoneV THEN max_limit.n ELSE limit.n) > 0
          THEN (IF limit = NoneV THEN max_limit.n ELSE limit.n) ELSE 0)
    ELSE max_limit.n

\* C15: with max_limit set, get_object_list returns the objects from
\* position max(offset, 0) on (0 when offset is None), max(min(L, max_limit), 0)
\* of them or as many as there are, L being the limit or max_limit when the
\* limit is None; so never more than max_limit objects
C15_SliceWithinMaxLimit ==
    (pc = "done" /\ call.op \in ListOps /\ call.max_limit # NoneV) =>
        /\ \A i \in 1..Len(query.objects) :
              query.objects[i] = call.rows[FirstIndex(call.offset) + i]
        /\ Len(query.objects) =
              Max(0, Min(SliceLength(call.limit, call.max_limit),
                         Len(call.rows) - FirstIndex(call.offset)))
        /\ Len(query.objects) <= call.max_limit.n

\* four rows, limit 3, offset 1, max_limit 2: rows 2 and 3 (test_list.py)
C15_LimitAndOffset ==
    /\ pc = "done" /\ call.op = "get_object_list"
    /\ call.rows = <<1, 2, 3, 4>> /\ call.limit = IntV(3) /\ call.offset = IntV(1)
    /\ call.max_limit = IntV(2)
    /\ query.objects = <<2, 3>>

(***************************************************************************)
(* AlchemyMixin.session_scope: the context manager step by step.  The log  *)
(* holds the calls made on the session, by the body and by the scope; exc  *)
(* names the statement whose exception is in flight.                       *)
(***************************************************************************)
MaxBody == 3

BodyCalls == {"query", "add", "commit"}

\* line 111: db_session = session_class()
opened == [pc |-> "body", open |-> TRUE, log |-> <<>>, exc |-> ""]

\* a call made on the session
called(s, name) == [s EXCEPT !.log = Append(@, name)]

\* line 114: db_session.commit() returns
committed(s) == [called(s, "commit") EXCEPT !.pc = "finally"]

\* line 114: db_session.commit() raises
commit_raised(s) == [called(s, "commit") EXCEPT !.pc = "except", !.exc = "commit"]

\* variant: the exception is dropped after the rollback
rolled_back_silently(s) == [called(s, "rollback") EXCEPT !.pc = "finally", !.exc = ""]

\* lines 115-117: db_session.rollback(); raise
rolled_back(s) == [called(s, "rollback") EXCEPT !.pc = "finally"]

\* line 116: db_session.rollback() raises; its exception replaces the first
rollback_raised(s) == [called(s, "rollback") EXCEPT !.pc = "finally", !.exc = "rollback"]

\* lines 118-119: db_session.close()
closed(s) == [called(s, "close") EXCEPT !.pc = "left", !.open = FALSE]

SessionStep(s) ==
    /\ session' = s
    /\ UNCHANGED <<pc, call, relationships, query, error, store>>

Enter ==
    /\ session.pc = "outside"
    /\ SessionStep(opened)

\* line 113: the body of the with statement uses the session
BodyUses ==
    /\ session.pc = "body"
    /\ Len(session.log) < MaxBody
    /\ \E name \in BodyCalls : SessionStep(called(session, name))

\* the body raises; contextlib throws the exception in at the yield
BodyRaises ==
    /\ session.pc = "body"
    /\ SessionStep([session EXCEPT !.pc = "except", !.exc = "body"])

BodyCompletes ==
    /\ session.pc = "body"
    /\ SessionStep([session EXCEPT !.pc = "commit"])

Commit ==
    /\ session.pc = "commit"
    /\ SessionStep(committed(session))

CommitRaises ==
    /\ session.pc = "commit"
    /\ SessionStep(commit_raised(session))

Rollback ==
    /\ session.pc = "except"
    /\ SessionStep(rolled_back(session))

RollbackRaises ==
    /\ session.pc = "except"
    /\ SessionStep(rollback_raised(session))

Close ==
    /\ session.pc = "finally"
    /\ SessionStep(closed(session))

\* the with statement is left; the caller sees session.exc, then goes on
Leave ==
    /\ session.pc = "left"
    /\ SessionStep(NoSession)

SessionNext ==
    \/ Enter \/ BodyUses \/ BodyRaises \/ BodyCompletes \/ Commit \/ CommitRaises
    \/ Rollback \/ RollbackRaises \/ Close \/ Leave

\* the steps of the generator run one after the other once the scope is
\* entered, and the body ends
FairSessionSpec == Init /\ [][SessionNext]_vars /\ WF_vars(SessionNext)

(***************************************************************************)
(* C16                                                                     *)
(***************************************************************************)
\* the calls the scope itself made: the log behind the body's calls
ScopeCalls(s, n) == SubSeq(s.log, Len(s.log) - n + 1, Len(s.log))

Closes(s) == {i \in 1..Len(s.log) : s.log[i] = "close"}

\* the scope is left: the session is closed, close was called once and
\* last; without an exception commit came right before it, with one
\* rollback did (after the commit, when the commit raised)
LeftInOrder ==
    session.pc = "left" =>
        /\ ~session.open
        /\ Closes(session) = {Len(session.log)}
        /\ session.exc = "" => ScopeCalls(session, 2) = <<"commit", "close">>
        /\ session.exc # "" => ScopeCalls(session, 2) = <<"rollback", "close">>
        /\ session.exc = "commit" => ScopeCalls(session, 3) = <<"commit", "rollback", "close">>

\* an exception of the body or of the commit is in flight until the scope is left
Propagates ==
    (session.pc \in {"except", "finally", "left"} /\ "rollback" \in Range(session.log))
        => session.exc # ""

OpenOnlyInside == session.open <=> session.pc \in {"body", "commit", "except", "finally"}

\* C16: on every exit path of session_scope the session is closed exactly
\* once and last, after commit when the body completed and after rollback
\* when the body or the commit raised, the exception reaching the caller;
\* every scope that is entered is left with the session closed
C16_ClosedOnEveryPath ==
    /\ [](LeftInOrder /\ Propagates /\ OpenOnlyInside)
    /\ (session.open ~> (session.pc = "left" /\ ~session.open))

\* the commit raised: commit, rollback, close, and the exception is in flight
C16_CommitRaisedPath ==
    /\ session.pc = "left" /\ ~session.open /\ session.exc = "commit"
    /\ session.log = <<"add", "commit", "rollback", "close">>

(***************************************************************************)
(* AlchemyMixin.get_or_create, two calls with the same query_attrs, each   *)
(* in the session of its own request.  The attributes of query_attrs are   *)
(* unique, so the table holds at most one row with them; a row is known by *)
(* the call that inserted it (0: it was there before) and by the value of  *)
(* the attribute that update_attrs sets.  The engine runs the transactions *)
(* READ COMMITTED (a statement sees what is committed when it starts) or   *)
(* REPEATABLE READ (every statement sees what was committed at the first   *)
(* statement of the transaction); an INSERT waits for an uncommitted row   *)
(* with the same unique attributes and fails when such a row is committed. *)
(***************************************************************************)
Callers == {1, 2}
IsolationLevels == {"READ COMMITTED", "REPEATABLE READ"}

Row(by, value) == [by |-> by, value |-> value]
NoRow == Row(-1, -1)

NewCall(update_attrs, update_existing) ==
    [pc |-> "query", update_attrs |-> update_attrs, update_existing |-> update_existing,
     began |-> FALSE, snapshot |-> {}, pending |-> {},
     result |-> NoRow, created |-> FALSE, err |-> ""]

\* the rows a statement of call p sees
Visible(st, p) ==
    (IF st.isolation = "REPEATABLE READ" /\ st.calls[p].began
     THEN st.calls[p].snapshot ELSE st.committed) \cup st.calls[p].pending

\* the first statement of the transaction fixes what REPEATABLE READ sees
Began(st, p) ==
    IF st.calls[p].began THEN st
    ELSE [st EXCEPT !.calls[p].began = TRUE, !.calls[p].snapshot = st.committed]

\* query.one_or_none()
one_or_none(rows) == IF rows = {} THEN NoRow ELSE CHOOSE r \in rows : TRUE

\* lines 764-767 and 782-785: setattr(existing, key, value) where it differs
updated(existing, c) ==
    IF c.update_existing /\ c.update_attrs # NoneV /\ existing.value # c.update_attrs.n
    THEN [existing EXCEPT !.value = c.update_attrs.n]
    ELSE existing

\* the row to write when the request commits, if setattr changed it
changed(existing, c) ==
    IF updated(existing, c) # existing THEN {updated(existing, c)} ELSE {}

\* lines 760-768
queried(st, p, existing) ==
    IF existing # NoRow
    THEN [st EXCEPT !.calls[p].pc = "returned",
                    !.calls[p].pending = changed(existing, st.calls[p]),
                    !.calls[p].result = updated(existing, st.calls[p])]
    ELSE [st EXCEPT !.calls[p].pc = "begin_nested"]

\* lines 772-776: model_class(**update_attrs)
new_object(p, c) == Row(p, IF c.update_attrs = NoneV THEN 0 ELSE c.update_attrs.n)

\* lines 777-778 and 787: add, commit of the savepoint, return new_object, True
inserted(st, p) ==
    [st EXCEPT !.calls[p].pc = "returned",
               !.calls[p].pending = {new_object(p, st.calls[p])},
               !.calls[p].result = new_object(p, st.calls[p]),
               !.calls[p].created = TRUE]

\* lines 781-786: existing = query.one_or_none(); the update loop reads
\* attributes of existing; return existing, False
requeried(st, p, existing) ==
    IF existing = NoRow /\ st.calls[p].update_existing
    THEN [st EXCEPT !.calls[p].pc = "returned", !.calls[p].err = "AttributeError"]
    ELSE IF existing = NoRow THEN [st EXCEPT !.calls[p].pc = "returned"]
    ELSE [st EXCEPT !.calls[p].pc = "returned",
                    !.calls[p].pending = changed(existing, st.calls[p]),
                    !.calls[p].result = updated(existing, st.calls[p])]

\* the request's transaction commits: its rows replace those it changed
flushed(st, p) ==
    [st EXCEPT !.calls[p].pc = "finished",
               !.calls[p].pending = {},
               !.committed = IF st.calls[p].pending = {} THEN @ ELSE st.calls[p].pending]

StoreStep(st) ==
    /\ store' = st
    /\ UNCHANGED <<pc, call, relationships, query, error, session>>

\* lines 760-761
Query(p) ==
    /\ store.calls[p].pc = "query"
    /\ StoreStep(queried(Began(store, p), p, one_or_none(Visible(store, p))))

\* line 770
BeginNested(p) ==
    /\ store.calls[p].pc = "begin_nested"
    /\ StoreStep([store EXCEPT !.calls[p].pc = "insert"])

\* lines 776-778: the INSERT goes through
Insert(p) ==
    /\ store.calls[p].pc = "insert"
    /\ \A q \in Callers \ {p} : store.calls[q].pending = {}
    /\ store.committed = {}
    /\ StoreStep(inserted(store, p))

\* lines 778-780: the INSERT meets the committed row, IntegrityError, rollback
InsertFails(p) ==
    /\ store.calls[p].pc = "insert"
    /\ \A q \in Callers \ {p} : store.calls[q].pending = {}
    /\ store.committed # {}
    /\ StoreStep([store EXCEPT !.calls[p].pc = "requery"])

\* line 781
Requery(p) ==
    /\ store.calls[p].pc = "requery"
    /\ StoreStep(requeried(store, p, one_or_none(Visible(store, p))))

\* the scope of the request commits (rolls back when the call raised)
Finish(p) ==
    /\ store.calls[p].pc = "returned"
    /\ StoreStep(IF store.calls[p].err # ""
                 THEN [store EXCEPT !.calls[p].pc = "finished", !.calls[p].pending = {}]
                 ELSE flushed(store, p))

GetOrCreateInit ==
    /\ pc = "idle"
    /\ call = NoCall
    /\ relationships = NewRelationships("")
    /\ query = BaseQuery
    /\ error = NoError
    /\ session = NoSession
    /\ store \in [isolation : IsolationLevels,
                  committed : {{}, {Row(0, 0)}},
                  calls : [Callers -> {NewCall(u, e) : u \in {NoneV, IntV(1), IntV(2)},
                                                       e \in BOOLEAN}]]

GetOrCreateNext ==
    \E p \in Callers :
        \/ Query(p) \/ BeginNested(p) \/ Insert(p) \/ InsertFails(p) \/ Requery(p)
        \/ Finish(p)

GetOrCreateSpec == GetOrCreateInit /\ [][GetOrCreateNext]_vars

(***************************************************************************)
(* C17                                                                     *)
(***************************************************************************)
AllFinished == \A p \in Callers : store.calls[p].pc = "finished"

\* C17: whatever the interleaving of the two calls, once both requests
\* are over exactly one record with the attributes exists, at most one
\* call reported that it created it, every call returned an object (none
\* raised, none returned None), and no call created one when the record
\* was there before
C17_RaceHandled ==
    (store.calls # <<>> /\ AllFinished) =>
        /\ Cardinality(store.committed) = 1
        /\ Cardinality({p \in Callers : store.calls[p].created}) <= 1
        /\ \A p \in Callers : store.calls[p].err = "" /\ store.calls[p].result # NoRow
        /\ (\E r \in store.committed : r.by = 0) => \A p \in Callers : ~store.calls[p].created

(***************************************************************************)
(* AlchemyMixin.save_resource_relations for a list given to a to-many      *)
(* relation.  A related object is known by its primary key, its name and   *)
(* where it came from; an item of the list is a dict (pk 0: the dict holds *)
(* no primary key) or a scalar key.                                        *)
(***************************************************************************)
MaxPk == 3

Related(pk, name, origin) == [pk |-> pk, name |-> name, origin |-> origin]
DictItem(pk, name) == [t |-> "dict", pk |-> pk, name |-> name]
KeyItem(pk) == [t |-> "key", pk |-> pk]

\* the rows of the related table that a query can fetch
RelatedTable == 1..MaxPk

\* line 677: {getattr(related, pk): index for index, related in enumerate(objects)}
reindex(objects) == [j \in 1..Len(objects) |-> [pk |-> objects[j].pk, index |-> j - 1]]

InReindexed(reindexed, pk) == \E j \in 1..Len(reindexed) : reindexed[j].pk = pk
IndexOf(reindexed, pk) ==
    reindexed[CHOOSE j \in 1..Len(reindexed) : reindexed[j].pk = pk].index
\* reindexed.pop(pk)
Popped(reindexed, pk) ==
    [j \in 1..(Len(reindexed) - 1) |->
        IF \E i \in 1..j : reindexed[i].pk = pk THEN reindexed[j + 1] ELSE reindexed[j]]

\* save_resource(objects[index], item, db_session): the attributes of the dict are set
saved(objects, index, item) ==
    [objects EXCEPT ![index + 1] = [@ EXCEPT !.name = item.name]]

\* update_or_create: a new object that takes the attributes of the dict
created(item) == Related(item.pk, item.name, "created")

RelationState(objects) ==
    [objects |-> objects, reindexed |-> reindex(objects), keys |-> <<>>, err |-> NoError]

\* lines 678-689: one item of the list
relation_item(st, item) ==
    IF item.t = "dict"
    THEN IF item.pk # 0 /\ InReindexed(st.reindexed, item.pk)
         THEN [st EXCEPT !.objects = saved(@, IndexOf(st.reindexed, item.pk), item),
                         !.reindexed = Popped(@, item.pk)]
         ELSE [st EXCEPT !.objects = Append(@, created(item))]
    ELSE IF InReindexed(st.reindexed, item.pk)
    THEN [st EXCEPT !.reindexed = Popped(@, item.pk)]
    ELSE [st EXCEPT !.keys = Append(@, item.pk)]

RECURSIVE relation_items(_, _, _)
relation_items(st, value, i) ==
    IF i > Len(value) THEN st
    ELSE relation_items(relation_item(st, value[i]), value, i + 1)

\* del objects[index]
Deleted(objects, index) ==
    [j \in 1..(Len(objects) - 1) |-> IF j <= index THEN objects[j] ELSE objects[j + 1]]

\* lines 690-691: for index in reindexed.values(): del objects[index]
RECURSIVE delete_left(_, _)
delete_left(st, j) ==
    IF j > Len(st.reindexed) THEN st
    ELSE IF st.reindexed[j].index >= Len(st.objects)
    THEN [st EXCEPT !.err = Raise("IndexError", <<>>)]
    ELSE delete_left([st EXCEPT !.objects = Deleted(@, st.reindexed[j].index)], j + 1)

\* db_session.query(related_mapper.class_).filter(pk.in_(keys)).all()
RECURSIVE fetch_all(_, _)
fetch_all(keys, pk) ==
    IF pk > MaxPk THEN <<>>
    ELSE (IF pk \in Range(keys) THEN <<Related(pk, pk, "fetched")>> ELSE <<>>)
             \o fetch_all(keys, pk + 1)

\* lines 692-694
with_fetched(st) ==
    IF st.err.kind # "" \/ st.keys = <<>> THEN st
    ELSE [st EXCEPT !.objects = @ \o fetch_all(st.keys, 1)]

\* lines 674-694
save_resource_relations(objects, value) ==
    with_fetched(delete_left(relation_items(RelationState(objects), value, 1), 1))

\* the objects related before the call: distinct rows of the table, in any order
RelatedBefore ==
    {objects \in UNION {[1..n -> {Related(pk, pk, "related") : pk \in RelatedTable}] :
                           n \in 0..MaxPk} :
        \A i, j \in 1..Len(objects) : i # j => objects[i].pk # objects[j].pk}

RelationItems ==
    {KeyItem(pk) : pk \in 1..(MaxPk + 1)} \cup {DictItem(pk, 9) : pk \in 0..MaxPk}

\* the lists given for the relation, no primary key named twice
RelationValues ==
    {value \in UNION {[1..n -> RelationItems] : n \in 0..MaxList} :
        \A i, j \in 1..Len(value) :
            (i # j /\ value[i].pk # 0) => value[i].pk # value[j].pk}

SaveCall(objects, value) == [op |-> "save_resource", objects |-> objects, value |-> value]
Saved(st) == [query |-> [objects |-> st.objects], rels |-> NewRelationships(""), err |-> st.err]

SaveResource ==
    /\ pc = "idle"
    /\ \E objects \in RelatedBefore, value \in RelationValues :
          Completes(SaveCall(objects, value), Saved(save_resource_relations(objects, value)))

(***************************************************************************)
(* C18                                                                     *)
(***************************************************************************)
\* the primary keys that the list names
NamedKeys(value) == {value[i].pk : i \in 1..Len(value)} \ {0}
KeysBefore(objects) == {objects[i].pk : i \in 1..Len(objects)}

\* the related objects of one origin, as a set
OfOrigin(objects, origin) == {objects[i] : i \in {j \in 1..Len(objects) : objects[j].origin = origin}}

\* what the claim says of a previously related object after the call
KeptAs(object, value) ==
    IF \E i \in 1..Len(value) : value[i].t = "dict" /\ value[i].pk = object.pk
    THEN [object EXCEPT !.name = 9]
    ELSE object

\* C18: after save_resource is given a list for a to-many relation, the
\* relation holds the previously related objects whose key the list names
\* (updated from a dict item, left intact for a scalar key), one created
\* object per dict item without a matching key and the objects fetched for
\* scalar keys not related before; the previously related objects whose
\* key is absent are removed, whatever their number
C18_RelationAfterSave ==
    (pc = "done" /\ call.op = "save_resource") =>
        /\ error.kind = ""
        /\ OfOrigin(query.objects, "related") =
              {KeptAs(call.objects[i], call.value) :
                  i \in {j \in 1..Len(call.objects) : call.objects[j].pk \in NamedKeys(call.value)}}
        /\ Cardinality({j \in 1..Len(query.objects) : query.objects[j].origin = "created"}) =
              Cardinality({i \in 1..Len(call.value) :
                              /\ call.value[i].t = "dict"
                              /\ call.value[i].pk \notin KeysBefore(call.objects)})
        /\ {o.pk : o \in OfOrigin(query.objects, "fetched")} =
              {call.value[i].pk : i \in {j \in 1..Len(call.value) : call.value[j].t = "key"}}
                  \cap (RelatedTable \ KeysBefore(call.objects))

(***************************************************************************)
(* The conditions object after a compilation.  The compiler receives the   *)
(* caller's mapping by reference; get_tsquery pops the elements off the    *)
(* list it is given, which is the list held by the mapping.                *)
(***************************************************************************)
\* get_tsquery has run for the item whose outcome is r
ReachedTsQuery(r) ==
    IF r.err.kind # "" THEN r.err = IndexError ELSE r.expr.e = "term_query"

\* the item of a column condition after _parse_tokens returned or raised r
leaf_after(item, r) ==
    IF ReachedTsQuery(r)
    THEN Item(item.key, get_tsquery(item.val, text_query_op(item.key)).value)
    ELSE item

Rest(seq, i) == SubSeq(seq, i + 1, Len(seq))

RECURSIVE items_after(_, _, _)
RECURSIVE items_after_next(_, _, _, _)
RECURSIVE groups_after(_, _, _)
RECURSIVE groups_after_next(_, _, _, _)
RECURSIVE item_after(_, _, _)

\* lines 405-412: the items in iteration order, up to the one that raises
items_after(conditions, i, rels) ==
    IF i > Len(conditions) THEN <<>>
    ELSE items_after_next(conditions, i, rels,
             IF IsLogical(conditions[i].key)
             THEN parse_logical_op(conditions[i].key[1], conditions[i].val,
                                   LogicalOp(conditions[i].key[1]), rels)
             ELSE parse_tokens(objects_class, conditions[i].key, conditions[i].val, rels, "eq"))

items_after_next(conditions, i, rels, r) ==
    <<item_after(conditions[i], rels, r)>>
        \o (IF r.err.kind # "" THEN Rest(conditions, i)
            ELSE items_after(conditions, i + 1, r.rels))

\* lines 442-447: the mappings of a list value, up to the one that raises
groups_after(value, i, rels) ==
    IF i > Len(value) THEN <<>>
    ELSE IF value[i].k # "dict" THEN <<value[i]>> \o Rest(value, i)
    ELSE groups_after_next(value, i, rels,
             build_filter_expressions(value[i].pairs, subconditions_op(""), rels))

groups_after_next(value, i, rels, r) ==
    <<DictV(items_after(value[i].pairs, 1, rels))>>
        \o (IF r.err.kind # "" THEN Rest(value, i) ELSE groups_after(value, i + 1, r.rels))

item_after(item, rels, r) ==
    IF ~IsLogical(item.key) THEN leaf_after(item, r)
    ELSE IF item.val.k = "dict" THEN Item(item.key, DictV(items_after(item.val.pairs, 1, rels)))
    ELSE IF item.val.k = "list" THEN Item(item.key, ListV(groups_after(item.val.items, 1, rels)))
    ELSE item

\* the mapping given to filter_by, as the caller finds it after the call
conditions_after(conditions) == items_after(conditions, 1, NewRelationships(""))

TextKeys ==
    {<<PARAM_TEXT_QUERY>>, <<PARAM_TEXT_QUERY, "or">>, <<PARAM_TEXT_QUERY, "and">>,
     <<"name", PARAM_TEXT_QUERY>>, <<"other_models", PARAM_TEXT_QUERY>>}
TextValues == {StrV(1)} \cup {ListV(l) : l \in SeqsUpTo({StrV(1), StrV(2)}, MaxList)}
TextLeaves == {Item(key, v) : key \in TextKeys, v \in TextValues}
TextGroups == Mappings(TextLeaves \cup SubLeaves, MaxConds)
TextConditions ==
    TextGroups
        \cup {<<Item(LogicalKey(arg), DictV(<<l>>))>> : arg \in logical_operators, l \in TextLeaves}
        \cup {<<Item(LogicalKey(arg), ListV(<<DictV(<<l>>), DictV(<<m>>)>>))>> :
                 arg \in {"or"}, l \in TextLeaves, m \in TextLeaves \cup SubLeaves}
        \cup {<<Item(LogicalKey("or"), ListV(<<DictV(<<l>>), IntV(1)>>))>> : l \in TextLeaves}

\* filter_by is called with a conditions object, and once more with the same object
FilterByAgain ==
    /\ pc = "idle"
    /\ \E c \in TextConditions :
          Completes([op |-> "filter_by_again", conditions |-> c, left |-> conditions_after(c),
                     again |-> filter_by(BaseQuery, conditions_after(c), <<>>)],
                    filter_by(BaseQuery, c, <<>>))

\* C19: compilation leaves the caller's conditions mapping and every value in it
\* as they were, so that compiling the same conditions object a second time
\* gives the same result as the first time
C19_CompilationLeavesInput ==
    (pc = "done" /\ call.op = "filter_by_again")
        => /\ call.left = call.conditions
           /\ call.again = [query |-> query, rels |-> relationships, err |-> error]

(***************************************************************************)
(* CollectionResource.get_queryset of both backends, as on_get and         *)
(* get_data reach it: limit, offset, totals and total_count have been read *)
(* from the request first.  The conditions are a mapping from names to     *)
(* values, as req.params and the decoded body are.                         *)
(***************************************************************************)
MaxParams == 2

\* get_special_params of the relational and of the document backend
sql_special_params ==
    {PARAM_LIMIT, PARAM_OFFSET, PARAM_TOTAL_COUNT, PARAM_TOTALS, PARAM_TEXT_QUERY,
     PARAM_RELATIONS}
es_special_params ==
    {PARAM_LIMIT, PARAM_OFFSET, PARAM_TOTAL_COUNT, PARAM_TOTALS, PARAM_TEXT_QUERY}

NoConditions == [n \in {} |-> NoneV]

\* dict.update(other)
Update(dict, other) ==
    [n \in (DOMAIN dict) \cup (DOMAIN other) |-> IF n \in DOMAIN other THEN other[n] ELSE dict[n]]

\* the mapping that the items of a decoded JSON object make
PairsDict(pairs) ==
    [n \in {pairs[i].key : i \in 1..Len(pairs)} |->
        pairs[CHOOSE i \in 1..Len(pairs) :
                 /\ pairs[i].key = n
                 /\ \A j \in 1..Len(pairs) : pairs[j].key = n => j <= i].val]

\* what get_queryset hands to filter_by, and the request as it is then
Handed(conditions, order, req) ==
    [conditions |-> conditions, order |-> order, req |-> req, err |-> NoError]
QuerysetError(err, req) ==
    [conditions |-> NoConditions, order |-> NoneV, req |-> req, err |-> err]
Merged(conditions) == [conditions |-> conditions, err |-> NoError]
MergeError(err) == [conditions |-> NoConditions, err |-> err]

\* dict(req.context['doc']) without the special params
doc_conditions(req, special) ==
    IF "doc" \in DOMAIN req.context
    THEN [n \in (DOMAIN req.context.doc) \ special |-> req.context.doc[n]]
    ELSE NoConditions

\* conditions.update(json.loads(search) if isinstance(search, str) else search):
\* text that is no JSON gives ValueError, answered as HTTPBadRequest
search_update(conditions, search) ==
    IF search.k = "name" THEN MergeError(HTTPBadRequest(<<PARAM_SEARCH>>))
    ELSE IF search.k = "dict" THEN Merged(Update(conditions, PairsDict(search.pairs)))
    ELSE IF search.k = "list" /\ search.items = <<>> THEN Merged(conditions)
    ELSE MergeError(Raise("TypeError", <<PARAM_SEARCH>>))

\* the search parameter popped and its contents merged
merge_search(conditions) ==
    IF PARAM_SEARCH \in DOMAIN conditions
    THEN search_update(Without(conditions, PARAM_SEARCH),
                       IF conditions[PARAM_SEARCH].k = "json" THEN conditions[PARAM_SEARCH].v
                       ELSE conditions[PARAM_SEARCH])
    ELSE Merged(conditions)

\* order = conditions.pop(self.PARAM_ORDER, None)
pop_order(m, req) ==
    IF m.err.kind # "" THEN QuerysetError(m.err, req)
    ELSE Handed(Without(m.conditions, PARAM_ORDER),
                IF PARAM_ORDER \in DOMAIN m.conditions THEN m.conditions[PARAM_ORDER] ELSE NoneV,
                req)

\* the conditions and the order that get_queryset gives to filter_by
queryset_conditions(req, special) ==
    pop_order(merge_search(Update(doc_conditions(req, special), req.params)), req)

\* get_eager_queryset reads the relations, removing them from req.params
get_eager_queryset(req) == get_param_or_post(req, PARAM_RELATIONS, StrV(0), TRUE).req

sql_get_queryset(req) == queryset_conditions(get_eager_queryset(req), sql_special_params)
es_get_queryset(req) == queryset_conditions(req, es_special_params)

\* int(limit) raises on text that is no number
int_raises(value) == value.k \notin {"none", "int", "str", "bool"}

\* get_queryset once the totals have been read
queryset_after_totals(n, backend) ==
    IF n.err.kind # "" THEN QuerysetError(n.err, n.req)
    ELSE IF backend = "sql" THEN sql_get_queryset(n.req)
    ELSE es_get_queryset(n.req)

queryset_after_offset(offset, backend) ==
    IF backend = "sql" /\ int_raises(offset.value)
    THEN QuerysetError(Raise("ValueError", <<PARAM_OFFSET>>), offset.req)
    ELSE queryset_after_totals(get_param_totals(offset.req), backend)

queryset_after_limit(limit, backend) ==
    IF int_raises(limit.value) THEN QuerysetError(Raise("ValueError", <<PARAM_LIMIT>>), limit.req)
    ELSE queryset_after_offset(get_param_or_post(limit.req, PARAM_OFFSET, NoneV, TRUE), backend)

\* on_get of the relational backend and get_data of the document backend,
\* up to the conditions that reach filter_by
on_get_conditions(req, backend) ==
    queryset_after_limit(get_param_or_post(req, PARAM_LIMIT, NoneV, TRUE), backend)

(***************************************************************************)
(* Requests carrying column conditions and reserved names in the query     *)
(* string, in the body and inside the search parameter.                    *)
(***************************************************************************)
Reserved ==
    {PARAM_LIMIT, PARAM_OFFSET, PARAM_ORDER, PARAM_RELATIONS, PARAM_SEARCH, PARAM_TOTALS,
     PARAM_TOTAL_COUNT}
RequestNames == Reserved \cup {"name"}

\* the value a name has in the query string (text) and in the body (decoded)
ParamValue(name, search) ==
    CASE name = PARAM_SEARCH -> search
      [] name \in {PARAM_LIMIT, PARAM_OFFSET, PARAM_TOTAL_COUNT} -> StrV(1)
      [] name = PARAM_TOTALS -> JsonV(ListV(<<NameV("count")>>))
      [] name = PARAM_ORDER -> NameV("name")
      [] name = PARAM_RELATIONS -> NameV("other_models")
      [] OTHER -> NameV("value")
DocValue(name, search) ==
    CASE name = PARAM_SEARCH -> search
      [] name \in {PARAM_LIMIT, PARAM_OFFSET} -> IntV(1)
      [] name = PARAM_TOTAL_COUNT -> BoolV(TRUE)
      [] name = PARAM_TOTALS -> ListV(<<CountTotal>>)
      [] name = PARAM_ORDER -> NameV("name")
      [] name = PARAM_RELATIONS -> NameV("other_models")
      [] OTHER -> NameV("value")

SearchValues ==
    {JsonV(DictV(<<Item(n, DocValue(n, NameV("value")))>>)) : n \in RequestNames}
        \cup {JsonV(DictV(<<>>)), JsonV(ListV(<<>>)), JsonV(IntV(1)), NameV("value")}

NameSets == {S \in SUBSET RequestNames : Cardinality(S) <= MaxParams}

QuerysetRequests ==
    {Request([n \in P |-> ParamValue(n, search)], NoContext) :
        P \in NameSets, search \in SearchValues}
    \cup {Request([n \in P |-> ParamValue(n, search)], WithDoc([n \in D |-> DocValue(n, search)])) :
            P \in NameSets, D \in NameSets, search \in {JsonV(DictV(<<Item(PARAM_LIMIT, IntV(1))>>))}}
    \cup {Request(NoConditions, WithDoc([n \in D |-> DocValue(n, search)])) :
            D \in NameSets, search \in SearchValues}

QuerysetAnswer(h) ==
    [query |-> [conditions |-> h.conditions, order |-> h.order, req |-> h.req],
     rels |-> NewRelationships(""), err |-> h.err]

OnGet ==
    /\ pc = "idle"
    /\ \E req \in QuerysetRequests :
          Completes(RequestCall("on_get", req), QuerysetAnswer(on_get_conditions(req, "sql")))

EsGetData ==
    /\ pc = "idle"
    /\ \E req \in QuerysetRequests :
          Completes(RequestCall("es_get_data", req), QuerysetAnswer(on_get_conditions(req, "es")))

\* C20: whichever of the query string, the decoded body or the search parameter
\* carries them, none of the reserved names limit, offset, order, relations,
\* search, totals, total_count is a key of the conditions that get_queryset
\* hands to the filter builder
C20_NoReservedCondition ==
    (pc = "done" /\ call.op \in {"on_get", "es_get_data"} /\ error.kind = "")
        => (DOMAIN query.conditions) \cap Reserved = {}

(***************************************************************************)
(* C21                                                                     *)
(***************************************************************************)
\* chain a is subsumed by chain b: its tokens are a strict subset of b's
Subsumed(a, b) == Range(a.chain) \subseteq Range(b.chain) /\ Range(a.chain) # Range(b.chain)

\* some registered occurrence of the chain of a or of b asked for an outer join
OuterRequired(a, b, join_chains) ==
    \E m \in 1..Len(join_chains) :
        join_chains[m].chain \in {a.chain, b.chain} /\ join_chains[m].outer

JoinedExts(q) == {q.joins[k].ext : k \in 1..Len(q.joins)}

CompiledRelational ==
    pc = "done" /\ call.op \in {"filter_by", "exclude_by", "order_by"} /\ error.kind = ""

\* C21: when a registered chain A is subsumed by a longer registered chain B,
\* only B is joined, and B is joined as an outer join whenever A or any
\* registered occurrence of A or B required an outer join
C21_SubsumedCarriesOuter ==
    CompiledRelational
        => \A i, j \in 1..Len(relationships.join_chains) :
              (/\ Subsumed(relationships.join_chains[i], relationships.join_chains[j])
               /\ is_longest(relationships.join_chains[j], relationships.join_chains))
                  => /\ relationships.join_chains[i].ext \notin JoinedExts(query)
                     /\ relationships.join_chains[j].ext \in JoinedExts(query)
                     /\ OuterRequired(relationships.join_chains[i], relationships.join_chains[j],
                                      relationships.join_chains)
                           => \A k \in 1..Len(query.joins) :
                                 query.joins[k].ext = relationships.join_chains[j].ext
                                    => query.joins[k].outer

(***************************************************************************)
(* _group_nested on the sibling expressions of one level, for a mapping    *)
(* with two Nested fields.                                                 *)
(***************************************************************************)
MaxParts == 3

NestedPaths == {<<"other_models">>, <<"third_models">>}
TermLeaf(nested_name, name, n) == EsLeaf("term", EsColumn(nested_name, name, FALSE), StrV(n), TRUE)

\* what _parse_tokens returns for the leaves of one level
SiblingParts ==
    {EsNested(p, TermLeaf(p, <<"name">>, n)) : p \in NestedPaths, n \in {1, 2}}
        \cup {TermLeaf(<<>>, <<"name">>, 1)}
SiblingLists == UNION {[1..n -> SiblingParts] : n \in 2..MaxParts}

GroupNested ==
    /\ pc = "idle"
    /\ \E expressions \in SiblingLists, op \in {"should", "must", "must_not"} :
          Completes([op |-> "group_nested", expressions |-> expressions, occur |-> op],
                    [query |-> [parts |-> group_nested(expressions, op)],
                     rels |-> NewRelationships(""), err |-> NoError])

(***************************************************************************)
(* C22                                                                     *)
(***************************************************************************)
\* the leaf queries of a member: its own, or those that a merged clause joins
MemberLeaves(part) ==
    IF IsNestedPart(part)
    THEN IF part.query.e = "bool" THEN part.query.clauses ELSE <<part.query>>
    ELSE <<part>>

RECURSIVE CountIn(_, _, _)
CountIn(leaf, parts, i) ==
    IF i > Len(parts) THEN 0
    ELSE Cardinality({j \in 1..Len(MemberLeaves(parts[i])) : MemberLeaves(parts[i])[j] = leaf})
            + CountIn(leaf, parts, i + 1)

OnePerPath(parts) ==
    \A i, j \in 1..Len(parts) :
        (i # j /\ IsNestedPart(parts[i]) /\ IsNestedPart(parts[j])) => parts[i].path # parts[j].path

\* C22: _group_nested returns a list in which no two members are nested
\* clauses over the same path; clauses with a common path are merged into one
\* whose query joins theirs with the operator, every input leaf query occurs
\* exactly once, and non-nested members are kept as they are
C22_NestedMergedPerPath ==
    (pc = "done" /\ call.op = "group_nested")
        => /\ OnePerPath(query.parts)
           /\ \A i \in 1..Len(call.expressions) :
                 CountIn(MemberLeaves(call.expressions[i])[1], query.parts, 1)
                    = CountIn(MemberLeaves(call.expressions[i])[1], call.expressions, 1)
           /\ \A i \in 1..Len(query.parts) :
                 IF IsNestedPart(query.parts[i])
                 THEN query.parts[i].query.e = "bool" => query.parts[i].query.occur = call.occur
                 ELSE query.parts[i] \in Range(call.expressions)

(***************************************************************************)
(* The token path resolvers of both backends over an entity whose field    *)
(* names spell paths: WideModel has the relationship other_models and the  *)
(* fields id, other_models__name and first__name.                          *)
(***************************************************************************)
RECURSIVE Joined(_)
\* '__'.join(tokens)
Joined(tokens) ==
    IF Len(tokens) = 1 THEN tokens[1] ELSE tokens[1] \o "__" \o Joined(Tail(tokens))

WidePaths ==
    {<<"id">>, <<"other_models">>, <<"other_models", "id">>, <<"other_models", "name">>,
     <<"first", "name">>}

\* sqlalchemy.py 479-545 with default_expression = lambda c, n, v: n, and
\* elasticsearch.py 185-256 with default_expression = lambda n, v: n
resolve_tokens(backend, tokens) ==
    IF backend = "sql"
    THEN parse_tokens("WideModel", tokens, NoneV, NewRelationships(""), "column")
    ELSE [expr |-> es_parse_tokens("WideModel", tokens, NoneV, "name", TRUE, FALSE).expr,
          rels |-> NewRelationships(""),
          err |-> es_parse_tokens("WideModel", tokens, NoneV, "name", TRUE, FALSE).err]

ParseTokens ==
    /\ pc = "idle"
    /\ \E backend \in {"sql", "es"}, tokens \in WidePaths :
          Completes([op |-> "parse_tokens", backend |-> backend, tokens |-> tokens],
                    [query |-> [expr |-> resolve_tokens(backend, tokens).expr],
                     rels |-> resolve_tokens(backend, tokens).rels,
                     err |-> resolve_tokens(backend, tokens).err])

(***************************************************************************)
(* C23                                                                     *)
(***************************************************************************)
\* the token sequence spells a field of the entity the resolution starts at
SpellsRootField(backend, tokens) ==
    IF backend = "sql" THEN Joined(tokens) \in Columns("WideModel")
    ELSE tokens \in DocFields("WideModel") /\ ~IsNested("WideModel", tokens)

\* the expression that names the field of the starting entity
RootField(backend, tokens) ==
    IF backend = "sql"
    THEN ColumnExpr(ColumnOf(ClassAlias("WideModel"), "WideModel", Joined(tokens)))
    ELSE [e |-> "column", field |-> EsColumn(<<>>, tokens, FALSE)]

\* C23: the resolver matches the longest field name: when the accumulated
\* token sequence (joined with "__") names a field of the current entity,
\* that field is bound even if a shorter prefix of the sequence is a
\* relationship name, and no relationship hop is committed.
C23_LongestFieldBound ==
    (pc = "done" /\ call.op = "parse_tokens" /\ SpellsRootField(call.backend, call.tokens))
        => /\ error.kind = ""
           /\ query.expr = RootField(call.backend, call.tokens)
           /\ relationships.join_chains = <<>>

(***************************************************************************)
(* An operator and its not-prefixed dual over the same field and operand:  *)
(* _parse_tokens of either backend as the filter builders call it, once    *)
(* with field__X and once with field__notX.                                *)
(***************************************************************************)
DualOperators ==
    {"exact", "range", "in", "contains", "match", "startswith", "endswith",
     "iexact", "icontains", "istartswith", "iendswith"}

OperatorFields == {<<"name">>, <<"id">>, <<"other_models", "name">>}
OperatorValues ==
    {StrV(1), IntV(1), ListV(<<IntV(1), IntV(2)>>), ListV(<<StrV(1), StrV(2)>>)}

\* sqlalchemy.py 479-545 with default_expression of _build_filter_expressions,
\* elasticsearch.py 185-256 with that of filter_by
parse_operator_tokens(backend, tokens, value) ==
    IF backend = "sql"
    THEN [expr |-> parse_tokens("Model", tokens, value, NewRelationships(""), "eq").expr,
          err |-> parse_tokens("Model", tokens, value, NewRelationships(""), "eq").err]
    ELSE es_parse_tokens("Model", tokens, value, "term", TRUE, FALSE)

ParseOperator ==
    /\ pc = "idle"
    /\ \E backend \in {"sql", "es"}, field \in OperatorFields, x \in DualOperators,
          value \in OperatorValues :
          Completes([op |-> "parse_operator", backend |-> backend, field |-> field,
                     token |-> x, value |-> value],
                    [query |-> [x |-> parse_operator_tokens(backend, Append(field, x), value),
                                notx |-> parse_operator_tokens(backend,
                                             Append(field, "not" \o x), value)],
                     rels |-> NewRelationships(""), err |-> NoError])

(***************************************************************************)
(* C24                                                                     *)
(***************************************************************************)
\* the operator that sqlalchemy's negation turns an operator into
Negate(op) ==
    CASE op = "eq" -> "ne"
      [] op = "ilike" -> "notilike"
      [] OTHER -> "not" \o op

\* the negation of a compiled leaf: the negated operator over the same column
\* and operand, or the leaf query under bool/must_not, within the nested
\* wrapper when the field is nested
NegatedLeaf(backend, expr) ==
    IF backend = "sql" THEN [expr EXCEPT !.op = Negate(@)]
    ELSE IF expr.e = "nested" THEN EsNested(expr.path, EsBoolOne("must_not", expr.query))
    ELSE EsBoolOne("must_not", expr)

\* C24: for every operator X with a not-prefixed dual notX, whenever
\* field__X compiles, field__notX compiles to the negation of what field__X
\* compiles to, in both backends.
C24_DualIsNegation ==
    (pc = "done" /\ call.op = "parse_operator" /\ query.x.err.kind = "")
        => /\ query.notx.err.kind = ""
           /\ query.notx.expr = NegatedLeaf(call.backend, query.x.expr)

(***************************************************************************)
(* The null tests: field__isnull and field__isnotnull with a boolean       *)
(* operand, through _parse_tokens of either backend.                       *)
(***************************************************************************)
ParseNullTest ==
    /\ pc = "idle"
    /\ \E backend \in {"sql", "es"}, field \in OperatorFields,
          token \in {"isnull", "isnotnull"}, flag \in BOOLEAN :
          Completes([op |-> "parse_null_test", backend |-> backend, field |-> field,
                     token |-> token, value |-> BoolV(flag)],
                    [query |-> parse_operator_tokens(backend, Append(field, token), BoolV(flag)),
                     rels |-> NewRelationships(""), err |-> NoError])

(***************************************************************************)
(* C25                                                                     *)
(***************************************************************************)
\* the leaf of a compiled document query, below its nested wrapper
EsLeafOf(expr) == IF expr.e = "nested" THEN expr.query ELSE expr

\* the compiled expression is the is-null test of its field
TestsNull(backend, expr) ==
    IF backend = "sql" THEN expr.e = "op" /\ expr.op = "is" /\ expr.val = NoneV
    ELSE EsLeafOf(expr).e = "leaf" /\ EsLeafOf(expr).q = "missing"

\* the compiled expression is the is-not-null test of its field
TestsNotNull(backend, expr) ==
    IF backend = "sql" THEN expr.e = "op" /\ expr.op = "isnot" /\ expr.val = NoneV
    ELSE EsLeafOf(expr).e = "leaf" /\ EsLeafOf(expr).q = "exists"

\* C25: the operand of isnull / isnotnull is a boolean flag that selects the
\* polarity and is never converted to the type of the field: isnull true and
\* isnotnull false compile to the is-null test, isnull false and isnotnull
\* true to the is-not-null test, in both backends.
C25_NullFlagSelectsPolarity ==
    (pc = "done" /\ call.op = "parse_null_test")
        => /\ query.err.kind = ""
           /\ IF (call.token = "isnull") = call.value.b
              THEN TestsNull(call.backend, query.expr)
              ELSE TestsNotNull(call.backend, query.expr)

(***************************************************************************)
(* C26                                                                     *)
(***************************************************************************)
\* the group_limit values of a totals list, in list order
GroupLimits(totals) ==
    SelectSeq(TotalPairs(totals, 1), LAMBDA pair : pair.key = AGGR_GROUPLIMIT)

BuiltTotals ==
    pc = "done" /\ call.op = "build_total_expressions" /\ error.kind = ""

\* the limit in force is the last one given, a positive integer
LimitedBy(n) ==
    /\ GroupLimits(call.totals) # <<>>
    /\ Last(GroupLimits(call.totals)).val = IntV(n)
    /\ n > 0

\* the select list is g1..gk, m1..mj; k is the number of group columns
GroupCount == Len(query.dimensions)
WindowColumns == SelectSeq(query.columns, LAMBDA c : c.e = "row_number")
PlainColumns == SelectSeq(query.columns, LAMBDA c : c.e # "row_number")

\* C26: in the relational totals builder, with a group_limit N (a positive
\* integer) the select list ends with a row_number window partitioned by
\* the group columns but the last and ordered by all metrics descending,
\* and the outer select keeps the rows with row_number <= N; without a
\* group_limit there is no window and no outer select; either way the
\* grouped rows are ordered by the group columns ascending, then the
\* metrics descending.
C26_GroupLimitWindow ==
    BuiltTotals =>
        /\ \A n \in 1..2 : LimitedBy(n) =>
              /\ Len(WindowColumns) = 1
              /\ query.columns = PlainColumns \o WindowColumns
              /\ WindowColumns[1].partition_by = SubSeq(PlainColumns, 1, GroupCount - 1)
              /\ WindowColumns[1].order_by
                    = Desc(SubSeq(PlainColumns, GroupCount + 1, Len(PlainColumns)))
              /\ query.row_number_limit = IntV(n)
        /\ GroupLimits(call.totals) = <<>> =>
              /\ WindowColumns = <<>>
              /\ query.row_number_limit = NoneV
        /\ query.order_by
              = [j \in 1..Len(PlainColumns) |-> [position |-> j, descending |-> j > GroupCount]]

\* two group columns and a metric with a group limit of one
C26_TwoGroupsLimited ==
    /\ BuiltTotals
    /\ LimitedBy(1)
    /\ GroupCount = 2
    /\ Len(PlainColumns) = 3
    /\ WindowColumns[1].partition_by = <<PlainColumns[1]>>

(***************************************************************************)
(* C27                                                                     *)
(***************************************************************************)
RECURSIVE AggNodes(_)
\* every aggregation of a tree of aggregations, at any depth
AggNodes(aggs) == UNION {{aggs[j]} \cup AggNodes(aggs[j].aggs) : j \in 1..Len(aggs)}

IsWrapper(node) == node.body.t = "nested"
IsGroup(node) == node.body.t = "terms"
IsMetric(node) == node.body.t = "metric"

\* the nested path of the field a group or a metric is computed over
NestedPathOf(node) == node.body.field.field.nested

\* the wrappers that directly hold a group, and their paths
GroupWrappers(aggs) ==
    {w \in AggNodes(aggs) : IsWrapper(w) /\ \E j \in 1..Len(w.aggs) : IsGroup(w.aggs[j])}
GroupPaths(aggs) == {w.body.path : w \in GroupWrappers(aggs)}

EsBuiltTotals ==
    pc = "done" /\ call.op = "es_build_total_expressions" /\ error.kind = ""

\* C27: in the document totals builder nested contexts are merged only when
\* the paths match exactly: the group_by columns under one nested path share
\* exactly one nested wrapper for that path, and a nested wrapper created
\* for a metric whose path is no group path encloses only metrics on that
\* path, never a metric on a root-level field or on another nested path.
C27_NestedContextsPerPath ==
    EsBuiltTotals =>
        /\ \A g \in AggNodes(query.aggs) :
              (IsGroup(g) /\ NestedPathOf(g) # <<>>) =>
                 /\ Cardinality({w \in GroupWrappers(query.aggs) : w.body.path = NestedPathOf(g)}) = 1
                 /\ \E w \in GroupWrappers(query.aggs) :
                        w.body.path = NestedPathOf(g) /\ g \in AggNodes(w.aggs)
        /\ \A w \in AggNodes(query.aggs) :
              (IsWrapper(w) /\ w.body.path \notin GroupPaths(query.aggs)) =>
                 \A m \in AggNodes(w.aggs) : IsMetric(m) => NestedPathOf(m) = w.body.path

(***************************************************************************)
(* C28                                                                     *)
(***************************************************************************)
\* the positions of the join graph that the registered chains pass through:
\* the relationship path from the root and the alias standing there
PositionsOf(jc) ==
    {[path |-> SubSeq(jc.chain, 1, k), alias |-> jc.ext[k].alias] : k \in 1..Len(jc.chain)}
Positions == UNION {PositionsOf(relationships.join_chains[i])
                       : i \in 1..Len(relationships.join_chains)}

\* C28: within one compilation two different relationship paths (different
\* ordered token lists, even when they end in the same relationship name or
\* revisit a relationship name along a cycle) have different aliases: one
\* alias never stands for two positions of the join graph.
C28_AliasPerPath ==
    (pc = "done" /\ call.op \in RelationalOps) =>
        \A p, q \in Positions : p.path # q.path => p.alias # q.alias

(***************************************************************************)
(* C29                                                                     *)
(***************************************************************************)
RECURSIVE ExprAliases(_)
\* the aliases of the columns that a compiled expression names
ExprAliases(e) ==
    CASE e.e \in {"and", "or", "not", "desc"} ->
            UNION {ExprAliases(e.args[i]) : i \in 1..Len(e.args)}
      [] e.e \in {"op", "column"} -> {e.col.alias}
      [] OTHER -> {}

\* the aliases of related entities that the filter and the order refer to
ReferencedAliases(q) ==
    (ExprAliases(q.filter) \cup UNION {ExprAliases(q.order[i]) : i \in 1..Len(q.order)})
        \ {ClassAlias(objects_class)}

\* the aliases that the materialized joins introduce
IntroducedAliases(q) ==
    UNION {{q.joins[k].ext[m].alias : m \in 1..Len(q.joins[k].ext)} : k \in 1..Len(q.joins)}

\* the chain is dropped: none of the joins was made from it
Dropped(jc, q) == jc.ext \notin JoinedExts(q)

\* the chain is the beginning of a materialized one
Covered(jc, q) == \E k \in 1..Len(q.joins) : IsPrefix(jc.ext, q.joins[k].ext)

\* C29: for every set of conditions and order criteria, over cyclic
\* relationship graphs too, every alias that a compiled leaf or order
\* expression refers to is introduced by a materialized join chain: when a
\* chain was registered a chain is materialized, and every dropped chain is
\* covered by a materialized one.
C29_ReferencedAliasesJoined ==
    (pc = "done" /\ call.op \in RelationalOps /\ error.kind = "") =>
        /\ ReferencedAliases(query) \subseteq IntroducedAliases(query)
        /\ relationships.join_chains # <<>> => query.joins # <<>>
        /\ \A i \in 1..Len(relationships.join_chains) :
              Dropped(relationships.join_chains[i], query)
                 => Covered(relationships.join_chains[i], query)

(***************************************************************************)
(* C30                                                                     *)
(***************************************************************************)
\* {"not": {leaf, leaf, ...}} or {"not": [{leaf, ...}, {leaf, ...}, ...]}
\* with at least two children, every child made of leaf conditions
AllLeaves(pairs) == pairs # <<>> /\ \A i \in 1..Len(pairs) : ~IsLogical(pairs[i].key)
NotChildren(conditions) ==
    IF conditions[1].val.k = "dict"
    THEN [i \in 1..Len(conditions[1].val.pairs) |-> <<conditions[1].val.pairs[i]>>]
    ELSE [i \in 1..Len(conditions[1].val.items) |-> conditions[1].val.items[i].pairs]
IsNotLevel(conditions) ==
    /\ Len(conditions) = 1
    /\ conditions[1].key = <<"not">>
    /\ \/ conditions[1].val.k = "dict" /\ AllLeaves(conditions[1].val.pairs)
       \/ /\ conditions[1].val.k = "list"
          /\ \A i \in 1..Len(conditions[1].val.items) :
                conditions[1].val.items[i].k = "dict" /\ AllLeaves(conditions[1].val.items[i].pairs)
    /\ Len(NotChildren(conditions)) >= 2

\* a leaf condition compiled on its own, in either backend
SqlLeaf(item) ==
    parse_tokens(objects_class, item.key, item.val, NewRelationships(""), "eq").expr
EsLeafQuery(item) ==
    EsLeafOf(es_parse_tokens(objects_class, item.key, item.val, "term", TRUE, FALSE).expr)

\* the truth of a compiled tree for a row (a document with one nested
\* object), T being the leaves that are true of it
RECURSIVE Holds(_, _)
Holds(e, T) ==
    CASE e.e = "and" -> \A i \in 1..Len(e.args) : Holds(e.args[i], T)
      [] e.e = "or" -> \E i \in 1..Len(e.args) : Holds(e.args[i], T)
      [] e.e = "not" -> ~Holds(e.args[1], T)
      [] OTHER -> e \in T

RECURSIVE EsHolds(_, _)
\* bool: must needs every clause, should one of them, must_not none of them
EsHolds(e, T) ==
    CASE e.e = "bool" /\ e.occur = "must" -> \A i \in 1..Len(e.clauses) : EsHolds(e.clauses[i], T)
      [] e.e = "bool" /\ e.occur = "should" -> \E i \in 1..Len(e.clauses) : EsHolds(e.clauses[i], T)
      [] e.e = "bool" /\ e.occur = "must_not" ->
            \A i \in 1..Len(e.clauses) : ~EsHolds(e.clauses[i], T)
      [] e.e = "nested" -> EsHolds(e.query, T)
      [] OTHER -> e \in T

\* NOT(AND(children)), a child being the conjunction of its leaves
NotAllChildren(children, leaf(_), T) ==
    ~\A i \in 1..Len(children) : \A j \in 1..Len(children[i]) : leaf(children[i][j]) \in T

\* the compiled leaves of the call, none of them dropped
SqlLeaves == {SqlLeaf(l) : l \in Leaves(call.conditions)}
EsLeaves == {EsLeafQuery(l) : l \in Leaves(call.conditions)}

\* C30: both backends give a NOT level the same meaning: with two or more
\* children under not, the relational and the document backend compile to a
\* tree that is true exactly when NOT(AND(children)) is, the document
\* backend also when it merges the children into one nested clause.
C30_NotOfAnd ==
    /\ (pc = "done" /\ call.op = "filter_by" /\ error.kind = "" /\ IsNotLevel(call.conditions)
        /\ None \notin SqlLeaves) =>
          \A T \in SUBSET SqlLeaves :
              Holds(query.filter, T) = NotAllChildren(NotChildren(call.conditions), SqlLeaf, T)
    /\ (pc = "done" /\ call.op = "es_filter_by" /\ error.kind = "" /\ IsNotLevel(call.conditions)
        /\ None \notin EsLeaves) =>
          \A T \in SUBSET EsLeaves :
              EsHolds(query.query, T) = NotAllChildren(NotChildren(call.conditions), EsLeafQuery, T)

(***************************************************************************)
(* The operations of a resource, one call at a time.                       *)
(***************************************************************************)
ResourceNext == BuildTotalExpressions \/ EsBuildTotalExpressions \/ GetParamTotals \/ FlattenAggregate \/ GetObjectList
                   \/ SqlGetObjectList \/ SaveResource \/ FilterByAgain \/ OnGet \/ EsGetData
                   \/ GroupNested \/ ParseTokens \/ ParseOperator \/ ParseNullTest
                   \/ Return

ResourceSpec == Init /\ [][ResourceNext]_vars

====
